---- MODULE Spec2Model ----
(***************************************************************************)
(* A model of the fpl_stats season pipeline: the fetch loop that builds    *)
(* the season table (fetch_fpl_league_data.py) and the analytics that are  *)
(* derived from it (fpl_data.py, fpl_plotting.py, fpl_dashboard.py).       *)
(*                                                                         *)
(* The season table df is a sequence of rows in file order; row i carries  *)
(* the pandas index label i-1.  Floating point results are kept as exact   *)
(* fractions [nan, num, den]; a NaN is [nan |-> TRUE].                     *)
(***************************************************************************)
EXTENDS Integers, Sequences, FiniteSets, TLC

VARIABLES
    df,             \* the season table handed to the analytics
    pc,             \* position of the run
    agg,            \* calculate_aggregates: its result
    h2h_data,       \* analyze_h2h: its result
    matrix,         \* plot_h2h_matrix: the win-ratio matrix
    fig,            \* create_h2h_figure: matrix and games_matrix
    streaks,        \* analyze_streaks: the result table
    st,             \* analyze_streaks: the locals of the scan
    loyalty_data,   \* analyze_player_loyalty: the result
    ly,             \* analyze_player_loyalty: the locals of the scan
    positions,      \* track_league_positions: the result table
    ps,             \* track_league_positions: the locals of the scan
    whatif,         \* analyze_what_if: its result
    all_data,       \* fetch main(): the records collected so far
    fx,             \* fetch main(): the loop variables
    output_file,    \* fetch main(): the table written at the end
    ld,             \* load_data: the files it is given and its outcome
    correlations,   \* analyze_team_correlation: its result
    awards,         \* the report: the award list and whether the script failed
    team_list,      \* the squad parsed back from its stored literal
    chip_stats,     \* analyze_chip_timing: its result
    predictions,    \* predict_performance: its result
    le              \* get_league_entries: its locals and the requests made

vars == <<df, pc, agg, h2h_data, matrix, fig, streaks, st, loyalty_data, ly,
          positions, ps, whatif, all_data, fx, output_file,
          ld, correlations, awards, team_list,
          chip_stats, predictions, le>>

(***************************************************************************)
(* Bounds of the model.                                                    *)
(***************************************************************************)
\* the largest number of rows of a generated season table
MaxRows == 4
\* the number of gameweeks of the table the loyalty scan walks
LoyaltyWeeks == 6

\* team names in alphabetical order (groupby sorts its keys)
TeamNames == <<"A", "B", "C">>
\* the league in standings order: the order in which the fetch writes teams
League == <<"B", "A", "C">>

None == "None"
\* a missing chip read back from the csv
NoChip == "nan"

(***************************************************************************)
(* Numbers.                                                                *)
(***************************************************************************)
NaN == [nan |-> TRUE, num |-> 0, den |-> 1]
Float(n, d) == [nan |-> FALSE, num |-> n, den |-> d]
IsZero(x) == ~x.nan /\ x.num = 0
\* x = n / d for a float value x
FloatIs(x, n, d) == ~x.nan /\ d # 0 /\ x.num * d = n * x.den
\* x + y = 1
SumIsOne(x, y) ==
    ~x.nan /\ ~y.nan /\ x.num * y.den + y.num * x.den = x.den * y.den

Max(a, b) == IF a >= b THEN a ELSE b
Min(a, b) == IF a <= b THEN a ELSE b
Abs(a) == IF a < 0 THEN -a ELSE a

RECURSIVE SumSeq(_)
SumSeq(s) == IF s = <<>> THEN 0 ELSE Head(s) + SumSeq(Tail(s))

RECURSIVE SumSet(_, _)
\* the sum of f[x] over x in S
SumSet(S, f) ==
    IF S = {} THEN 0
    ELSE LET x == CHOOSE y \in S : TRUE IN f[x] + SumSet(S \ {x}, f)

Range(s) == {s[i] : i \in DOMAIN s}

RECURSIVE SelectIdx(_, _, _)
\* the indices i >= k of s, ascending, whose row is in the set Keep
SelectIdx(s, Keep, k) ==
    IF k > Len(s) THEN <<>>
    ELSE IF k \in Keep THEN <<k>> \o SelectIdx(s, Keep, k + 1)
    ELSE SelectIdx(s, Keep, k + 1)

RECURSIVE SortSetBy(_, _)
\* the elements of S as a sequence, ascending by key[x] (keys distinct)
SortSetBy(S, key) ==
    IF S = {} THEN <<>>
    ELSE LET m == CHOOSE x \in S : \A y \in S : key[x] <= key[y]
         IN <<m>> \o SortSetBy(S \ {m}, key)

NameRank(name) == CHOOSE i \in DOMAIN TeamNames : TeamNames[i] = name
LeagueRank(name) == CHOOSE i \in DOMAIN League : League[i] = name

(***************************************************************************)
(* The season table.                                                       *)
(***************************************************************************)
DefaultRow ==
    [gw |-> 1, entry_name |-> "A", points |-> 1, bench |-> 0, hits |-> 0,
     event_transfers |-> 0, chip |-> NoChip, captain_id |-> 1,
     captain_points |-> 0, team |-> <<>>, transfer_gain |-> 0]

\* the row of team name in gameweek gw, with the fields of v set
MkRow(name, gw, v) ==
    [f \in DOMAIN DefaultRow |->
        IF f = "gw" THEN gw
        ELSE IF f = "entry_name" THEN name
        ELSE IF f \in DOMAIN v THEN v[f]
        ELSE DefaultRow[f]]

\* the table the fetch writes for the cells of f: teams in league order,
\* each team's gameweeks ascending
TableOf(f) ==
    LET key == [c \in DOMAIN f |-> LeagueRank(c[1]) * 100 + c[2]]
        cells == SortSetBy(DOMAIN f, key)
    IN [i \in DOMAIN cells |-> MkRow(cells[i][1], cells[i][2], f[cells[i]])]

\* df is a table of at most MaxRows rows, one row at most per (team, gameweek)
LoadedTable(teams, gws, values) ==
    \E S \in {T \in SUBSET (teams \X gws) : T # {} /\ Cardinality(T) <= MaxRows} :
        \E f \in [S -> values] : df = TableOf(f)

\* df[col] of the rows whose index is in I, summed
SumCol(d, I, col) == SumSet(I, [i \in I |-> d[i][col]])

\* the rows of one team
RowsOf(d, name) == {i \in DOMAIN d : d[i].entry_name = name}
\* the rows of one gameweek
RowsOfGw(d, gw) == {i \in DOMAIN d : d[i].gw = gw}
\* df["gw"].unique() as a set
GwsOf(d) == {d[i].gw : i \in DOMAIN d}
\* the keys of df.groupby("entry_name"), sorted
GroupNames(d) ==
    LET names == {d[i].entry_name : i \in DOMAIN d}
    IN SortSetBy(names, [n \in names |-> NameRank(n)])
\* df["entry_name"].unique(): in order of first appearance
UniqueNames(d) ==
    LET names == {d[i].entry_name : i \in DOMAIN d}
        first == [n \in names |-> CHOOSE i \in RowsOf(d, n) : \A j \in RowsOf(d, n) : i <= j]
    IN SortSetBy(names, first)
\* the first row of I (idxmax / idxmin / iloc[0] take the first)
FirstOf(I) == CHOOSE i \in I : \A j \in I : i <= j

(***************************************************************************)
(* calculate_aggregates (fpl_data.py).                                     *)
(***************************************************************************)
\* df["gw"].nunique()
num_gw(d) == Cardinality(GwsOf(d))

\* a slip: the last row with the largest value, not the first
IdxMaxLast(d, I, col) ==
    LET top == {i \in I : \A j \in I : d[i][col] >= d[j][col]}
    IN CHOOSE i \in top : \A j \in top : i >= j

\* the first row of I with the largest / smallest value of col
IdxMax(d, I, col) == FirstOf({i \in I : \A j \in I : d[i][col] >= d[j][col]})
IdxMin(d, I, col) == FirstOf({i \in I : \A j \in I : d[i][col] <= d[j][col]})

\* a slip: the divisor is the number of records the team itself has
EfficiencyOwnCount(d, name) ==
    Float(SumCol(d, RowsOf(d, name), "points") - SumCol(d, RowsOf(d, name), "hits"),
          Cardinality(RowsOf(d, name)))

\* (agg["points"] - agg["hits"]) / num_gw
Efficiency(d, name) ==
    Float(SumCol(d, RowsOf(d, name), "points") - SumCol(d, RowsOf(d, name), "hits"),
          num_gw(d))

\* a slip: the filter transfer_gain < 0 is left out
TransferLossUnfiltered(d, name) == SumCol(d, RowsOf(d, name), "transfer_gain")

\* the sum of the negative transfer gains, mapped by name, fillna(0)
TransferLoss(d, name) ==
    LET neg == {i \in RowsOf(d, name) : d[i].transfer_gain < 0}
    IN IF neg # {} THEN SumCol(d, neg, "transfer_gain") ELSE 0

\* value_counts of the names of the idxmax rows, mapped by name, fillna(0)
BestGwCount(d, name) ==
    Cardinality({g \in GwsOf(d) : d[IdxMax(d, RowsOfGw(d, g), "points")].entry_name = name})
WorstGwCount(d, name) ==
    Cardinality({g \in GwsOf(d) : d[IdxMin(d, RowsOfGw(d, g), "points")].entry_name = name})

\* the sum of points over the team's rows in Half, mapped by name: NaN for
\* a team with no row there
RundaSum(d, name, Half) ==
    LET I == {i \in RowsOf(d, name) : d[i].gw \in Half}
    IN IF I # {} THEN Float(SumCol(d, I, "points"), 1) ELSE NaN

FloatSub(x, y) ==
    IF x.nan \/ y.nan THEN NaN ELSE Float(x.num * y.den - y.num * x.den, x.den * y.den)

\* the groups of df[df["chip"] != "bboost"].groupby("entry_name")
NonBboostNames(d) ==
    LET keep == {i \in DOMAIN d : d[i].chip # "bboost"}
        names == {d[i].entry_name : i \in keep}
    IN SortSetBy(names, [n \in names |-> NameRank(n)])

AggRow(d, name, k) ==
    LET I == RowsOf(d, name)
        first == RundaSum(d, name, 1..19)
        second == RundaSum(d, name, 20..38)
    IN [entry_name |-> name,
        points |-> SumCol(d, I, "points"),
        bench |-> SumCol(d, I, "bench"),
        hits |-> SumCol(d, I, "hits"),
        captain_points |-> SumCol(d, I, "captain_points"),
        transfer_gain |-> SumCol(d, I, "transfer_gain"),
        event_transfers |-> SumCol(d, I, "event_transfers"),
        avg_gw_points |-> Float(SumCol(d, I, "points"), Cardinality(I)),
        avg_bench_points |-> Float(SumCol(d, I, "bench"), Cardinality(I)),
        efficiency |-> Efficiency(d, name),
        transfer_loss |-> TransferLoss(d, name),
        total_hits |-> SumCol(d, I, "hits") \div 4,
        max_bench_points |->
            SumCol(d, {i \in RowsOf(d, NonBboostNames(d)[k]) : d[i].chip # "bboost"}, "bench"),
        best_gw_count |-> BestGwCount(d, name),
        worst_gw_count |-> WorstGwCount(d, name),
        runda_1 |-> first,
        runda_2 |-> second,
        roznica_rund |-> FloatSub(second, first)]

\* df.columns
ColumnsOf(d) == IF d = <<>> THEN {} ELSE DOMAIN d[1]

\* the columns calculate_aggregates reads: a missing one is a KeyError
AggregatedColumns ==
    {"gw", "entry_name", "points", "bench", "hits", "captain_points",
     "transfer_gain", "event_transfers", "chip"}

\* the aggregate table, one row per team sorted by name; agg raises for a
\* column the table lacks, and the positional assignment of
\* max_bench_points raises when a team has bench-boost rows only
calculate_aggregates(d) ==
    LET names == GroupNames(d)
    IN IF ~(AggregatedColumns \subseteq ColumnsOf(d))
       THEN [raised |-> TRUE, error |-> "KeyError", rows |-> <<>>]
       ELSE IF Len(NonBboostNames(d)) # Len(names)
       THEN [raised |-> TRUE, error |-> "ValueError", rows |-> <<>>]
       ELSE [raised |-> FALSE, error |-> "",
             rows |-> [k \in DOMAIN names |-> AggRow(d, names[k], k)]]

(***************************************************************************)
(* The runs.                                                               *)
(***************************************************************************)
Unset == <<>>

AllTeams == Range(TeamNames)
TwoHalves == {1, 20}

AggPointsValues == {[points |-> p, hits |-> h] : p \in {1, 2}, h \in {0, 4}}
AggGainValues == {[transfer_gain |-> t, event_transfers |-> 1] : t \in {-2, -1, 0, 3}}
AggChipValues == {[chip |-> c, bench |-> b] : c \in {NoChip, "bboost"}, b \in {1, 2}}
AggTable ==
    \/ LoadedTable(AllTeams, TwoHalves, AggPointsValues)
    \/ LoadedTable(AllTeams, TwoHalves, AggGainValues)
    \/ LoadedTable(AllTeams, TwoHalves, AggChipValues)

\* everything but the table and the position of the run
Idle ==
    /\ agg = Unset /\ h2h_data = Unset /\ matrix = Unset /\ fig = Unset
    /\ streaks = Unset /\ st = Unset /\ loyalty_data = Unset /\ ly = Unset
    /\ positions = Unset /\ ps = Unset /\ whatif = Unset
    /\ all_data = Unset /\ fx = Unset /\ output_file = Unset
    /\ ld = Unset /\ correlations = Unset /\ awards = Unset /\ team_list = Unset
    /\ chip_stats = Unset /\ predictions = Unset /\ le = Unset

InitAgg == AggTable /\ pc = "loaded" /\ Idle

CalculateAggregates ==
    /\ pc = "loaded"
    /\ agg' = calculate_aggregates(df)
    /\ pc' = "aggregated"
    /\ UNCHANGED <<df, h2h_data, matrix, fig, streaks, st, loyalty_data, ly,
                   positions, ps, whatif, all_data, fx, output_file,
                   ld, correlations, awards, team_list,
                   chip_stats, predictions, le>>

NextAgg == CalculateAggregates

SpecAgg == InitAgg /\ [][NextAgg]_vars

(***************************************************************************)
(* Claims about calculate_aggregates.                                      *)
(***************************************************************************)
Aggregated == pc = "aggregated" /\ ~agg.raised
AggNames == {agg.rows[k].entry_name : k \in DOMAIN agg.rows}
AggOf(name) == agg.rows[CHOOSE k \in DOMAIN agg.rows : agg.rows[k].entry_name = name]
TeamsIn(d) == {d[i].entry_name : i \in DOMAIN d}
PointsOfRows(I) == {df[i].points : i \in I}

\* C1: for every team of the table, efficiency times the number of distinct
\* gameweeks of the whole table equals the team's sum(points) - sum(hits);
\* the divisor is the global gameweek count, not the team's record count.
C1_EfficiencyTimesGameweeks ==
    Aggregated =>
        /\ AggNames = TeamsIn(df)
        /\ \A name \in AggNames :
            LET e == AggOf(name).efficiency
                I == RowsOf(df, name)
            IN /\ ~e.nan /\ e.den # 0
               /\ e.num * Cardinality(GwsOf(df))
                    = (SumCol(df, I, "points") - SumCol(df, I, "hits")) * e.den

\* a team with fewer records than the table has gameweeks, and with a hit
C1_Witness ==
    /\ Aggregated
    /\ \E name \in AggNames :
        /\ Cardinality(RowsOf(df, name)) < Cardinality(GwsOf(df))
        /\ AggOf(name).hits > 0
        /\ AggOf(name).points - AggOf(name).hits # 0

StrictBestGws(name) ==
    {g \in GwsOf(df) : \E i \in RowsOf(df, name) \cap RowsOfGw(df, g) :
        \A j \in RowsOfGw(df, g) : df[j].entry_name # name => df[i].points > df[j].points}
StrictWorstGws(name) ==
    {g \in GwsOf(df) : \E i \in RowsOf(df, name) \cap RowsOfGw(df, g) :
        \A j \in RowsOfGw(df, g) : df[j].entry_name # name => df[i].points < df[j].points}
UniqueMaxGws ==
    {g \in GwsOf(df) : \E i \in RowsOfGw(df, g) :
        \A j \in RowsOfGw(df, g) : j # i => df[i].points > df[j].points}
\* the gameweeks whose first row with the extreme points is the team's
FirstBestGws(name) ==
    {g \in GwsOf(df) : \E i \in RowsOf(df, name) \cap RowsOfGw(df, g) :
        \A j \in RowsOfGw(df, g) :
            j # i => df[j].points < df[i].points \/ (df[j].points = df[i].points /\ j > i)}
FirstWorstGws(name) ==
    {g \in GwsOf(df) : \E i \in RowsOf(df, name) \cap RowsOfGw(df, g) :
        \A j \in RowsOfGw(df, g) :
            j # i => df[j].points > df[i].points \/ (df[j].points = df[i].points /\ j > i)}

\* C6 as stated: best_gw_count (worst_gw_count) is the number of gameweeks
\* in which the team's points are strictly greater (smaller) than those of
\* every other team, and best_gw_count summed over the teams is the number
\* of gameweeks with a unique maximum.
C6_StrictBestWorstCount ==
    Aggregated =>
        /\ \A name \in AggNames :
            /\ AggOf(name).best_gw_count = Cardinality(StrictBestGws(name))
            /\ AggOf(name).worst_gw_count = Cardinality(StrictWorstGws(name))
        /\ SumSet(AggNames, [n \in AggNames |-> AggOf(n).best_gw_count])
            = Cardinality(UniqueMaxGws)

\* C6 amended: best_gw_count (worst_gw_count) is the number of gameweeks
\* whose first record in table order with the gameweek's maximum (minimum)
\* points is the team's; every gameweek in which the team is strictly best
\* (worst) is among them, and best_gw_count summed over the teams is the
\* number of distinct gameweeks.
C6_FirstBestWorstCount ==
    Aggregated =>
        /\ \A name \in AggNames :
            /\ AggOf(name).best_gw_count = Cardinality(FirstBestGws(name))
            /\ AggOf(name).worst_gw_count = Cardinality(FirstWorstGws(name))
            /\ StrictBestGws(name) \subseteq FirstBestGws(name)
            /\ StrictWorstGws(name) \subseteq FirstWorstGws(name)
        /\ SumSet(AggNames, [n \in AggNames |-> AggOf(n).best_gw_count])
            = Cardinality(GwsOf(df))
        /\ SumSet(AggNames, [n \in AggNames |-> AggOf(n).worst_gw_count])
            = Cardinality(GwsOf(df))

\* a gameweek that three teams played, two of them tied at the top, and a
\* gameweek with a strict best team
C6_Witness ==
    /\ Aggregated
    /\ \E g \in GwsOf(df) :
        /\ Cardinality(RowsOfGw(df, g)) = 3
        /\ g \notin UniqueMaxGws
        /\ Cardinality(PointsOfRows(RowsOfGw(df, g))) = 2
    /\ UniqueMaxGws # {}

\* C8: for every team transfer_loss is <= 0: it is the sum of the team's
\* transfer_gain over exactly the gameweeks where transfer_gain is negative,
\* and 0 for a team with no negative transfer_gain.
C8_TransferLossNonPositive ==
    Aggregated =>
        \A name \in AggNames :
            LET neg == {i \in RowsOf(df, name) : df[i].transfer_gain < 0}
                loss == AggOf(name).transfer_loss
            IN /\ loss <= 0
               /\ loss = SumCol(df, neg, "transfer_gain")
               /\ neg = {} => loss = 0

\* one team lost in two gameweeks, another gained more than it lost
C8_Witness ==
    /\ Aggregated
    /\ \E a, b \in AggNames :
        /\ AggOf(a).transfer_loss = -3
        /\ AggOf(b).transfer_loss = -2 /\ AggOf(b).transfer_gain = 1

\* the teams that lack a record for a gameweek another team has
TeamsWithGaps == {n \in TeamsIn(df) : \E g \in GwsOf(df) : RowsOf(df, n) \cap RowsOfGw(df, g) = {}}

\* C11: when a team lacks a record for a gameweek that other teams have,
\* calculate_aggregates does not raise and returns exactly one row for that
\* team, whose sums and means are taken over exactly the records it has.
C11_GapsAggregateWithoutRaising ==
    (pc = "aggregated" /\ TeamsWithGaps # {}) =>
        /\ ~agg.raised
        /\ \A n \in TeamsWithGaps :
            LET I == RowsOf(df, n)
                K == {k \in DOMAIN agg.rows : agg.rows[k].entry_name = n}
            IN /\ Cardinality(K) = 1
               /\ \A k \in K :
                    /\ agg.rows[k].points = SumCol(df, I, "points")
                    /\ agg.rows[k].bench = SumCol(df, I, "bench")
                    /\ agg.rows[k].hits = SumCol(df, I, "hits")
                    /\ FloatIs(agg.rows[k].avg_gw_points, SumCol(df, I, "points"), Cardinality(I))
                    /\ FloatIs(agg.rows[k].avg_bench_points, SumCol(df, I, "bench"), Cardinality(I))

(***************************************************************************)
(* analyze_h2h (fpl_data.py) and the win-ratio matrix built from it        *)
(* (fpl_plotting.py plot_h2h_matrix, fpl_dashboard.py create_h2h_figure).  *)
(***************************************************************************)
\* a slip: a drawn gameweek counts as a win
OutscoredOrLevel(a, b) == a >= b

\* merged['points_1'] > merged['points_2']
Outscored(a, b) == a > b

\* pd.merge(..., on='gw'): the pairs of rows of the two teams with equal gw
Merged(d, team1, team2) ==
    {m \in RowsOf(d, team1) \X RowsOf(d, team2) : d[m[1]].gw = d[m[2]].gw}

H2HRow(d, team1, team2) ==
    LET merged == Merged(d, team1, team2)
        diff == [m \in merged |-> d[m[1]].points - d[m[2]].points]
    IN [team_1 |-> team1,
        team_2 |-> team2,
        wins_1 |-> Cardinality({m \in merged : Outscored(d[m[1]].points, d[m[2]].points)}),
        wins_2 |-> Cardinality({m \in merged : Outscored(d[m[2]].points, d[m[1]].points)}),
        avg_margin |-> IF merged = {} THEN NaN
                       ELSE Float(SumSet(merged, diff), Cardinality(merged))]

RECURSIVE H2HLoop(_, _, _, _)
\* for i, team1 in enumerate(teams): for team2 in teams[i+1:]
H2HLoop(d, teams, i, j) ==
    IF i > Len(teams) THEN <<>>
    ELSE IF j > Len(teams) THEN H2HLoop(d, teams, i + 1, i + 2)
    ELSE <<H2HRow(d, teams[i], teams[j])>> \o H2HLoop(d, teams, i, j + 1)

analyze_h2h(d) == H2HLoop(d, UniqueNames(d), 1, 2)

\* sorted(set(team_1) | set(team_2))
MatrixTeams(h) ==
    LET names == {h[k].team_1 : k \in DOMAIN h} \cup {h[k].team_2 : k \in DOMAIN h}
    IN SortSetBy(names, [n \in names |-> NameRank(n)])
\* teams.index(name)
IndexOf(teams, name) == CHOOSE i \in DOMAIN teams : teams[i] = name

\* a slip: the mirrored cell gets the same ratio
MirrorSame(x) == x

\* 1.0 - win_ratio
Mirror(x) == Float(x.den - x.num, x.den)

RECURSIVE FillMatrix(_, _, _, _, _)
\* the loop over h2h_data.iterrows(): m the ratios, g the games so far
FillMatrix(h, teams, k, m, g) ==
    IF k > Len(h) THEN [matrix |-> m, games_matrix |-> g]
    ELSE LET i == IndexOf(teams, h[k].team_1)
             j == IndexOf(teams, h[k].team_2)
             total_games == h[k].wins_1 + h[k].wins_2
             win_ratio == Float(h[k].wins_1, total_games)
         IN IF total_games > 0
            THEN FillMatrix(h, teams, k + 1,
                    [m EXCEPT ![<<i, j>>] = win_ratio, ![<<j, i>>] = Mirror(win_ratio)],
                    [g EXCEPT ![<<i, j>>] = total_games, ![<<j, i>>] = total_games])
            ELSE FillMatrix(h, teams, k + 1, m, g)

\* the matrices of both presentations; an empty h2h table has no team_1
\* column and the lookup raises
RatioMatrix(h) ==
    IF Len(h) = 0 THEN [raised |-> TRUE]
    ELSE LET teams == MatrixTeams(h)
             n == Len(teams)
             filled == FillMatrix(h, teams, 1,
                          [c \in (1..n) \X (1..n) |-> Float(0, 1)],
                          [c \in (1..n) \X (1..n) |-> 0])
         IN [raised |-> FALSE, teams |-> teams, matrix |-> filled.matrix,
             games_matrix |-> filled.games_matrix]

plot_h2h_matrix(h) ==
    LET r == RatioMatrix(h)
    IN IF r.raised THEN r ELSE [raised |-> FALSE, teams |-> r.teams, matrix |-> r.matrix]

create_h2h_figure(h) == RatioMatrix(h)

H2HPointsValues == {[points |-> p] : p \in {1, 2, 3}}
FirstWeeks == {1, 2}

InitH2H == LoadedTable(AllTeams, FirstWeeks, H2HPointsValues) /\ pc = "loaded" /\ Idle

AnalyzeH2H ==
    /\ pc = "loaded"
    /\ h2h_data' = analyze_h2h(df)
    /\ pc' = "h2h"
    /\ UNCHANGED <<df, agg, matrix, fig, streaks, st, loyalty_data, ly,
                   positions, ps, whatif, all_data, fx, output_file,
                   ld, correlations, awards, team_list,
                   chip_stats, predictions, le>>

PlotH2HMatrix ==
    /\ pc = "h2h" /\ matrix = Unset
    /\ matrix' = plot_h2h_matrix(h2h_data)
    /\ UNCHANGED <<df, pc, agg, h2h_data, fig, streaks, st, loyalty_data, ly,
                   positions, ps, whatif, all_data, fx, output_file,
                   ld, correlations, awards, team_list,
                   chip_stats, predictions, le>>

CreateH2HFigure ==
    /\ pc = "h2h" /\ fig = Unset
    /\ fig' = create_h2h_figure(h2h_data)
    /\ UNCHANGED <<df, pc, agg, h2h_data, matrix, streaks, st, loyalty_data, ly,
                   positions, ps, whatif, all_data, fx, output_file,
                   ld, correlations, awards, team_list,
                   chip_stats, predictions, le>>

NextH2H == AnalyzeH2H \/ PlotH2HMatrix \/ CreateH2HFigure

SpecH2H == InitH2H /\ [][NextH2H]_vars

(***************************************************************************)
(* Claims about the head-to-head table and matrix.                         *)
(***************************************************************************)
SharedGws(a, b) ==
    {g \in GwsOf(df) : RowsOf(df, a) \cap RowsOfGw(df, g) # {}
                       /\ RowsOf(df, b) \cap RowsOfGw(df, g) # {}}
PointsAt(a, g) == df[CHOOSE i \in RowsOf(df, a) \cap RowsOfGw(df, g) : TRUE].points
\* the shared gameweeks in which a scored strictly more than b
WonGws(a, b) == {g \in SharedGws(a, b) : PointsAt(a, g) > PointsAt(b, g)}

\* C4: for every unordered pair of teams reported by analyze_h2h, wins_1
\* (wins_2) is the number of shared gameweeks in which team_1 (team_2) scored
\* strictly more; level gameweeks count for neither, and wins_1 + wins_2
\* never exceeds the number of shared gameweeks.
C4_H2HWins ==
    pc = "h2h" =>
        /\ \A a, b \in TeamsIn(df) :
            a # b => Cardinality({k \in DOMAIN h2h_data :
                        {h2h_data[k].team_1, h2h_data[k].team_2} = {a, b}}) = 1
        /\ \A k \in DOMAIN h2h_data :
            LET r == h2h_data[k]
            IN /\ r.team_1 # r.team_2
               /\ r.wins_1 = Cardinality(WonGws(r.team_1, r.team_2))
               /\ r.wins_2 = Cardinality(WonGws(r.team_2, r.team_1))
               /\ r.wins_1 + r.wins_2 <= Cardinality(SharedGws(r.team_1, r.team_2))

\* a pair that shares two gameweeks, one won and one level
C4_Witness ==
    /\ pc = "h2h"
    /\ \E k \in DOMAIN h2h_data :
        /\ Cardinality(SharedGws(h2h_data[k].team_1, h2h_data[k].team_2)) = 2
        /\ h2h_data[k].wins_1 + h2h_data[k].wins_2 = 1

\* the matrices built so far
Matrices ==
    (IF matrix # Unset /\ ~matrix.raised THEN {matrix} ELSE {})
    \cup (IF fig # Unset /\ ~fig.raised THEN {[raised |-> FALSE, teams |-> fig.teams, matrix |-> fig.matrix]} ELSE {})
Cell(M, a, b) == M.matrix[<<IndexOf(M.teams, a), IndexOf(M.teams, b)>>]

\* C5 as stated: for every pair of distinct teams that share at least one
\* gameweek, ratio[i][j] + ratio[j][i] = 1 with ratio[i][j] = wins_i /
\* (wins_i + wins_j); for pairs with no shared gameweek both cells are 0,
\* and every diagonal cell is 0.
C5_RatioSumsToOneWhenSharing ==
    \A M \in Matrices :
        /\ Range(M.teams) = TeamsIn(df)
        /\ \A a, b \in Range(M.teams) :
            /\ a = b => IsZero(Cell(M, a, b))
            /\ (a # b /\ SharedGws(a, b) # {}) =>
                /\ SumIsOne(Cell(M, a, b), Cell(M, b, a))
                /\ FloatIs(Cell(M, a, b), Cardinality(WonGws(a, b)),
                           Cardinality(WonGws(a, b)) + Cardinality(WonGws(b, a)))
            /\ (a # b /\ SharedGws(a, b) = {}) =>
                IsZero(Cell(M, a, b)) /\ IsZero(Cell(M, b, a))

\* C5 amended: for every pair of distinct teams with wins_i + wins_j > 0,
\* ratio[i][j] + ratio[j][i] = 1 with ratio[i][j] = wins_i / (wins_i +
\* wins_j); for pairs with wins_i + wins_j = 0 (no shared gameweek, or only
\* level ones) both cells are 0, and every diagonal cell is 0.
C5_RatioSumsToOneWhenDecided ==
    \A M \in Matrices :
        /\ Range(M.teams) = TeamsIn(df)
        /\ \A a, b \in Range(M.teams) :
            LET decided == Cardinality(WonGws(a, b)) + Cardinality(WonGws(b, a))
            IN /\ a = b => IsZero(Cell(M, a, b))
               /\ (a # b /\ decided > 0) =>
                    /\ SumIsOne(Cell(M, a, b), Cell(M, b, a))
                    /\ FloatIs(Cell(M, a, b), Cardinality(WonGws(a, b)), decided)
               /\ (a # b /\ decided = 0) =>
                    IsZero(Cell(M, a, b)) /\ IsZero(Cell(M, b, a))

\* both matrices are built; one pair is decided, one pair shares a gameweek
\* but only level ones, one pair shares no gameweek
C5_Witness ==
    /\ Cardinality(Matrices) = 1 /\ matrix # Unset /\ fig # Unset
    /\ \E a, b, c \in TeamsIn(df) :
        /\ Cardinality(WonGws(a, b)) = 1 /\ WonGws(b, a) = {}
        /\ SharedGws(a, c) # {} /\ WonGws(a, c) = {} /\ WonGws(c, a) = {}
        /\ SharedGws(b, c) = {}

(***************************************************************************)
(* analyze_streaks (fpl_data.py): one step per gameweek of the scan.       *)
(***************************************************************************)
\* a slip: a score equal to the mean counts as above it
AtLeastMean(d, gw, points) ==
    points * Cardinality(RowsOfGw(d, gw)) >= SumCol(d, RowsOfGw(d, gw), "points")

\* points > avg_points[gw], avg_points the mean of points over the gameweek's rows
AboveMean(d, gw, points) ==
    points * Cardinality(RowsOfGw(d, gw)) > SumCol(d, RowsOfGw(d, gw), "points")

\* sorted(team_df['gw'].unique())
SortedGws(d, name) ==
    LET gws == {d[i].gw : i \in RowsOf(d, name)}
    IN SortSetBy(gws, [g \in gws |-> g])

\* team_df[team_df['gw'] == gw]['points'].iloc[0]
FirstPoints(d, name, gw) == d[FirstOf(RowsOf(d, name) \cap RowsOfGw(d, gw))].points

\* the locals at the start of a team's scan
StreakLocals == [good_streak |-> 0, bad_streak |-> 0, current |-> 0]

\* the body of the loop over the team's gameweeks
StreakUpdate(d, name, gw, l) ==
    IF AboveMean(d, gw, FirstPoints(d, name, gw))
    THEN LET current == IF l.current >= 0 THEN l.current + 1 ELSE 1
         IN [good_streak |-> Max(l.good_streak, current),
             bad_streak |-> l.bad_streak,
             current |-> current]
    ELSE LET current == IF l.current <= 0 THEN l.current - 1 ELSE -1
         IN [good_streak |-> l.good_streak,
             bad_streak |-> Min(l.bad_streak, current),
             current |-> current]

\* a slip: the bad streak kept with its sign
StreakRowNoAbs(name, l) ==
    [name |-> name,
     longest_good_streak |-> Max(0, l.good_streak),
     longest_bad_streak |-> Max(0, l.bad_streak),
     current_streak |-> l.current]

\* the row written with streaks.loc[name, ...]
StreakRow(name, l) ==
    [name |-> name,
     longest_good_streak |-> Max(0, l.good_streak),
     longest_bad_streak |-> Max(0, Abs(l.bad_streak)),
     current_streak |-> l.current]

StreakPointsValues == {[points |-> p] : p \in {1, 3}}
ThreeWeeks == {1, 2, 3}

InitStreaks == LoadedTable(AllTeams, ThreeWeeks, StreakPointsValues) /\ pc = "loaded" /\ Idle

\* the call: the groups of df.groupby('entry_name'); hist keeps, per team,
\* the gameweeks scanned and the value of the counter after each
AnalyzeStreaks ==
    /\ pc = "loaded"
    /\ pc' = "streaks"
    /\ streaks' = <<>>
    /\ st' = [todo |-> GroupNames(df), name |-> None, gws |-> <<>>, l |-> StreakLocals,
              hist |-> [n \in TeamsIn(df) |-> <<>>]]
    /\ UNCHANGED <<df, agg, h2h_data, matrix, fig, loyalty_data, ly,
                   positions, ps, whatif, all_data, fx, output_file,
                   ld, correlations, awards, team_list,
                   chip_stats, predictions, le>>

\* the next team: its locals are reset
StreakTeam ==
    /\ pc = "streaks" /\ st.name = None /\ st.todo # <<>>
    /\ st' = [st EXCEPT !.todo = Tail(st.todo), !.name = Head(st.todo),
                        !.gws = SortedGws(df, Head(st.todo)), !.l = StreakLocals]
    /\ UNCHANGED <<df, pc, agg, h2h_data, matrix, fig, streaks, loyalty_data, ly,
                   positions, ps, whatif, all_data, fx, output_file,
                   ld, correlations, awards, team_list,
                   chip_stats, predictions, le>>

\* one gameweek of the team
StreakStep ==
    /\ pc = "streaks" /\ st.name # None /\ st.gws # <<>>
    /\ LET gw == Head(st.gws)
           l == StreakUpdate(df, st.name, gw, st.l)
       IN st' = [st EXCEPT !.gws = Tail(st.gws), !.l = l,
                     !.hist[st.name] = Append(@, [gw |-> gw, current |-> l.current])]
    /\ UNCHANGED <<df, pc, agg, h2h_data, matrix, fig, streaks, loyalty_data, ly,
                   positions, ps, whatif, all_data, fx, output_file,
                   ld, correlations, awards, team_list,
                   chip_stats, predictions, le>>

\* the team's row is written
StreakStore ==
    /\ pc = "streaks" /\ st.name # None /\ st.gws = <<>>
    /\ streaks' = Append(streaks, StreakRow(st.name, st.l))
    /\ st' = [st EXCEPT !.name = None]
    /\ UNCHANGED <<df, pc, agg, h2h_data, matrix, fig, loyalty_data, ly,
                   positions, ps, whatif, all_data, fx, output_file,
                   ld, correlations, awards, team_list,
                   chip_stats, predictions, le>>

StreakReturn ==
    /\ pc = "streaks" /\ st.name = None /\ st.todo = <<>>
    /\ pc' = "streaks_done"
    /\ UNCHANGED <<df, agg, h2h_data, matrix, fig, streaks, st, loyalty_data, ly,
                   positions, ps, whatif, all_data, fx, output_file,
                   ld, correlations, awards, team_list,
                   chip_stats, predictions, le>>

NextStreaks == AnalyzeStreaks \/ StreakTeam \/ StreakStep \/ StreakStore \/ StreakReturn

SpecStreaks == InitStreaks /\ [][NextStreaks]_vars

(***************************************************************************)
(* Claims about analyze_streaks.                                           *)
(***************************************************************************)
\* the gameweek's mean is strictly below the team's points
StrictlyAboveMean(name, gw) ==
    LET I == RowsOfGw(df, gw)
    IN PointsAt(name, gw) * Cardinality(I) > SumCol(df, I, "points")
\* the largest positive value of a counter history (0 if none)
LargestPositive(h) ==
    LET P == {h[k].current : k \in DOMAIN h} \cup {0}
    IN CHOOSE m \in P : \A x \in P : x <= m
\* the largest magnitude of a negative value of a counter history (0 if none)
LargestNegative(h) ==
    LET P == {-h[k].current : k \in DOMAIN h} \cup {0}
    IN CHOOSE m \in P : \A x \in P : x <= m
StreakScanning == pc \in {"streaks", "streaks_done"}

\* C7: scanning a team's gameweeks in increasing order, the counter becomes
\* previous+1 (+1 after a negative value) when the team's points strictly
\* exceed the gameweek's cross-team mean and previous-1 (-1 after a positive
\* value) otherwise, a score equal to the mean taking the negative branch;
\* longest_good_streak is the largest positive value the counter reached,
\* longest_bad_streak the largest magnitude of a negative value, and
\* current_streak the counter's value after the last gameweek.
C7_StreakCounter ==
    StreakScanning =>
        /\ \A name \in TeamsIn(df) :
            LET h == st.hist[name]
            IN \A k \in DOMAIN h :
                LET prev == IF k = 1 THEN 0 ELSE h[k - 1].current
                IN /\ k > 1 => h[k - 1].gw < h[k].gw
                   /\ h[k].gw \in {df[i].gw : i \in RowsOf(df, name)}
                   /\ h[k].current =
                        IF StrictlyAboveMean(name, h[k].gw)
                        THEN (IF prev < 0 THEN 1 ELSE prev + 1)
                        ELSE (IF prev > 0 THEN -1 ELSE prev - 1)
        /\ \A r \in DOMAIN streaks :
            LET h == st.hist[streaks[r].name]
            IN /\ Len(h) = Cardinality({df[i].gw : i \in RowsOf(df, streaks[r].name)})
               /\ streaks[r].longest_good_streak = LargestPositive(h)
               /\ streaks[r].longest_bad_streak = LargestNegative(h)
               /\ streaks[r].current_streak = h[Len(h)].current
        /\ pc = "streaks_done" =>
            {streaks[r].name : r \in DOMAIN streaks} = TeamsIn(df)

\* the scan is over; one counter changed its sign, one ran to -2, and a
\* team that equalled the mean was counted below it
C7_Witness ==
    /\ pc = "streaks_done"
    /\ \E r \in DOMAIN streaks : streaks[r].longest_bad_streak = 2
    /\ \E r \in DOMAIN streaks :
        /\ streaks[r].longest_good_streak = 1 /\ streaks[r].current_streak = -1
    /\ \E name \in TeamsIn(df) : \E k \in DOMAIN st.hist[name] :
        LET g == st.hist[name][k].gw
        IN /\ PointsAt(name, g) * Cardinality(RowsOfGw(df, g)) = SumCol(df, RowsOfGw(df, g), "points")
           /\ st.hist[name][k].current < 0

(***************************************************************************)
(* analyze_player_loyalty (fpl_data.py): one step per row of the scan.     *)
(***************************************************************************)
\* a player is loyal from this many weeks on
MinLoyalWeeks == 5

\* team_df.sort_values('gw'): the team's rows by gameweek
RowsByGw(d, name) ==
    LET I == RowsOf(d, name) IN SortSetBy(I, [i \in I |-> d[i].gw * 1000 + i])

RECURSIVE CurrentTeam(_, _)
\* {p['player_id']: p['points'] for p in literal_eval(row['team'])}: the
\* keys in order of first appearance, the last value of a repeated key
CurrentTeam(team, c) ==
    IF team = <<>> THEN c
    ELSE LET p == Head(team)
         IN CurrentTeam(Tail(team),
               [order |-> IF p.player_id \in Range(c.order) THEN c.order
                          ELSE Append(c.order, p.player_id),
                points |-> [q \in Range(c.order) \cup {p.player_id} |->
                              IF q = p.player_id THEN p.points ELSE c.points[q]]])

\* a slip: the streak grows and the maximum is not updated
ExtendStreakOnly(h) == [h EXCEPT !.current_streak = h.current_streak + 1]

\* current_streak += 1; weeks = max(weeks, current_streak)
ExtendStreak(h) ==
    [h EXCEPT !.current_streak = h.current_streak + 1,
              !.weeks = Max(h.weeks, h.current_streak + 1)]

RECURSIVE UpdateHistories(_, _, _)
\* for pid, points in current_team.items()
UpdateHistories(ph, c, k) ==
    IF k > Len(c.order) THEN ph
    ELSE LET pid == c.order[k]
             points == c.points[pid]
         IN IF pid \notin Range(ph.order)
            THEN UpdateHistories(
                    [order |-> Append(ph.order, pid),
                     data |-> [q \in Range(ph.order) \cup {pid} |->
                        IF q = pid THEN [weeks |-> 1, points |-> <<points>>, current_streak |-> 1]
                        ELSE ph.data[q]]],
                    c, k + 1)
            ELSE LET h == ph.data[pid]
                     h2 == IF h.current_streak > 0 THEN ExtendStreak(h)
                           ELSE [h EXCEPT !.current_streak = 1]
                 IN UpdateHistories(
                        [ph EXCEPT !.data[pid] = [h2 EXCEPT !.points = Append(h.points, points)]],
                        c, k + 1)

\* for pid in player_history: if pid not in current_team: current_streak = 0
ResetRemoved(ph, c) ==
    [ph EXCEPT !.data = [q \in Range(ph.order) |->
        IF q \notin Range(c.order) THEN [ph.data[q] EXCEPT !.current_streak = 0]
        ELSE ph.data[q]]]

\* one row of the scan
LoyaltyUpdate(d, i, ph) ==
    LET c == CurrentTeam(d[i].team, [order |-> <<>>, points |-> <<>>])
    IN ResetRemoved(UpdateHistories(ph, c, 1), c)

RECURSIVE LoyalPlayers(_, _)
\* the players of the history, in its order, with weeks >= 5
LoyalPlayers(ph, k) ==
    IF k > Len(ph.order) THEN <<>>
    ELSE LET pid == ph.order[k]
             data == ph.data[pid]
         IN (IF data.weeks >= MinLoyalWeeks
             THEN <<[player_id |-> pid, weeks_owned |-> data.weeks,
                     avg_points |-> Float(SumSeq(data.points), Len(data.points))]>>
             ELSE <<>>) \o LoyalPlayers(ph, k + 1)

RECURSIVE SortedByWeeks(_)
\* sorted(loyal_players, key=weeks_owned, reverse=True): stable
SortedByWeeks(l) ==
    IF l = <<>> THEN <<>>
    ELSE LET m == CHOOSE i \in DOMAIN l :
                    /\ \A j \in DOMAIN l : l[j].weeks_owned <= l[i].weeks_owned
                    /\ \A j \in 1..(i - 1) : l[j].weeks_owned < l[i].weeks_owned
         IN <<l[m]>> \o SortedByWeeks(SubSeq(l, 1, m - 1) \o SubSeq(l, m + 1, Len(l)))

NoHistory == [order |-> <<>>, data |-> <<>>]

Players == {1, 2}
Squads == {<<>>, <<1>>, <<2>>, <<1, 2>>}
\* the squad list of a row: every player starts, his points follow the week
SquadList(squad, gw) ==
    [k \in DOMAIN squad |->
        [player_id |-> squad[k], multiplier |-> 1, points |-> (squad[k] + gw) % 3]]

\* team B with a row in each of the weeks 1..LoyaltyWeeks, team A with one row
LoyaltyTable ==
    \E q \in [1..LoyaltyWeeks -> Squads] :
        df = TableOf([c \in ({"B"} \X (1..LoyaltyWeeks)) \cup {<<"A", 1>>} |->
                 IF c[1] = "B" THEN [team |-> SquadList(q[c[2]], c[2])]
                 ELSE [team |-> SquadList(<<1>>, 1)]])

InitLoyalty == LoyaltyTable /\ pc = "loaded" /\ Idle

AnalyzePlayerLoyalty ==
    /\ pc = "loaded"
    /\ pc' = "loyalty"
    /\ loyalty_data' = <<>>
    /\ ly' = [todo |-> GroupNames(df), name |-> None, rows |-> <<>>, row |-> 0,
              player_history |-> NoHistory]
    /\ UNCHANGED <<df, agg, h2h_data, matrix, fig, streaks, st,
                   positions, ps, whatif, all_data, fx, output_file,
                   ld, correlations, awards, team_list,
                   chip_stats, predictions, le>>

\* the next team: player_history = {}
LoyaltyTeam ==
    /\ pc = "loyalty" /\ ly.name = None /\ ly.todo # <<>>
    /\ ly' = [todo |-> Tail(ly.todo), name |-> Head(ly.todo),
              rows |-> RowsByGw(df, Head(ly.todo)), row |-> 0,
              player_history |-> NoHistory]
    /\ UNCHANGED <<df, pc, agg, h2h_data, matrix, fig, streaks, st, loyalty_data,
                   positions, ps, whatif, all_data, fx, output_file,
                   ld, correlations, awards, team_list,
                   chip_stats, predictions, le>>

\* one row of the team: the histories are updated, removed players reset
LoyaltyRow ==
    /\ pc = "loyalty" /\ ly.name # None /\ ly.rows # <<>>
    /\ ly' = [ly EXCEPT !.rows = Tail(ly.rows), !.row = Head(ly.rows),
                        !.player_history = LoyaltyUpdate(df, Head(ly.rows), ly.player_history)]
    /\ UNCHANGED <<df, pc, agg, h2h_data, matrix, fig, streaks, st, loyalty_data,
                   positions, ps, whatif, all_data, fx, output_file,
                   ld, correlations, awards, team_list,
                   chip_stats, predictions, le>>

\* loyalty_data[name] = the loyal players, longest first
LoyaltyStore ==
    /\ pc = "loyalty" /\ ly.name # None /\ ly.rows = <<>>
    /\ loyalty_data' = Append(loyalty_data,
            [name |-> ly.name, loyal |-> SortedByWeeks(LoyalPlayers(ly.player_history, 1))])
    /\ ly' = [ly EXCEPT !.name = None]
    /\ UNCHANGED <<df, pc, agg, h2h_data, matrix, fig, streaks, st,
                   positions, ps, whatif, all_data, fx, output_file,
                   ld, correlations, awards, team_list,
                   chip_stats, predictions, le>>

LoyaltyReturn ==
    /\ pc = "loyalty" /\ ly.name = None /\ ly.todo = <<>>
    /\ pc' = "loyalty_done"
    /\ UNCHANGED <<df, agg, h2h_data, matrix, fig, streaks, st, loyalty_data, ly,
                   positions, ps, whatif, all_data, fx, output_file,
                   ld, correlations, awards, team_list,
                   chip_stats, predictions, le>>

NextLoyalty ==
    AnalyzePlayerLoyalty \/ LoyaltyTeam \/ LoyaltyRow \/ LoyaltyStore \/ LoyaltyReturn

SpecLoyalty == InitLoyalty /\ [][NextLoyalty]_vars

(***************************************************************************)
(* Claims about analyze_player_loyalty.                                    *)
(***************************************************************************)
SquadOf(i) == {df[i].team[k].player_id : k \in DOMAIN df[i].team}
\* the longest run of consecutive rows of the team, by gameweek, that hold pid
LongestRun(name, pid) ==
    LET rows == RowsByGw(df, name)
        runs == {j - i + 1 : <<i, j>> \in
                    {x \in (DOMAIN rows) \X (DOMAIN rows) :
                        x[1] <= x[2] /\ \A k \in x[1]..x[2] : pid \in SquadOf(rows[k])}}
                \cup {0}
    IN CHOOSE m \in runs : \A x \in runs : x <= m
\* the run of consecutive rows holding pid that ends with row i of the scan
RunEndingAt(name, pid, i) ==
    LET rows == RowsByGw(df, name)
        n == IndexOf(rows, i)
        runs == {n - k + 1 : k \in {k \in 1..n : \A m \in k..n : pid \in SquadOf(rows[m])}}
                \cup {0}
    IN CHOOSE m \in runs : \A x \in runs : x <= m

\* C9: at every step of the scan the recorded maximum streak of a player is
\* >= his running counter, the counter being reset to 0 in a scanned week
\* whose squad does not hold him; every player of the returned list has
\* weeks_owned >= 5, every player whose maximum streak reached 5 is in the
\* list, and each team's list is ordered by weeks_owned non-increasing.
C9_LoyaltyStreaks ==
    pc \in {"loyalty", "loyalty_done"} =>
        /\ \A pid \in Range(ly.player_history.order) :
            LET h == ly.player_history.data[pid]
            IN /\ h.weeks >= h.current_streak
               /\ ly.row # 0 => h.current_streak = RunEndingAt(df[ly.row].entry_name, pid, ly.row)
               /\ (ly.row # 0 /\ pid \notin SquadOf(ly.row)) => h.current_streak = 0
        /\ \A t \in DOMAIN loyalty_data :
            LET l == loyalty_data[t].loyal
                name == loyalty_data[t].name
            IN /\ \A k \in DOMAIN l :
                    /\ l[k].weeks_owned >= 5
                    /\ l[k].weeks_owned = LongestRun(name, l[k].player_id)
               /\ \A pid \in Players :
                    LongestRun(name, pid) >= 5 => \E k \in DOMAIN l : l[k].player_id = pid
               /\ \A k \in 1..(Len(l) - 1) : l[k].weeks_owned >= l[k + 1].weeks_owned

\* the scan is over: the list of one team holds two players with different
\* streaks, the one met later in the scan first; the other team's list is empty
C9_Witness ==
    /\ pc = "loyalty_done"
    /\ \E t \in DOMAIN loyalty_data :
        LET l == loyalty_data[t].loyal
        IN /\ Len(l) = 2 /\ l[1].weeks_owned = 6 /\ l[2].weeks_owned = 5
           /\ l[1].player_id = 2
    /\ \E t \in DOMAIN loyalty_data : loyalty_data[t].loyal = <<>>

(***************************************************************************)
(* track_league_positions (fpl_data.py): one step per gameweek.            *)
(***************************************************************************)
\* df[df['gw'] <= gw].groupby('entry_name')['points'].sum(): a series
\* labelled by entry_name
CumPoints(d, gw) ==
    LET I == {i \in DOMAIN d : d[i].gw <= gw}
        names == {d[i].entry_name : i \in I}
    IN [kind |-> "entry_name", index |-> names,
        val |-> [n \in names |-> SumCol(d, I \cap RowsOf(d, n), "points")]]

\* gw_data[col] = series: the series is reindexed with the frame's labels;
\* a label the series does not have gets NaN.  The rows of a frame read
\* from the csv are labelled by row number.
AssignAligned(rows, series) ==
    [i \in Range(rows) |->
        IF series.kind = "row" /\ (i - 1) \in series.index
        THEN Float(series.val[i - 1], 1)
        ELSE NaN]

RECURSIVE SortValuesDescending(_, _)
\* sort_values(col, ascending=False): the larger value first, the NaN rows
\* last in the order they had
SortValuesDescending(rows, key) ==
    IF rows = <<>> THEN <<>>
    ELSE LET real == {k \in DOMAIN rows : ~key[rows[k]].nan}
             m == IF real = {} THEN 1
                  ELSE CHOOSE k \in real :
                        /\ \A j \in real : key[rows[j]].num <= key[rows[k]].num
                        /\ \A j \in real : j < k => key[rows[j]].num < key[rows[k]].num
         IN <<rows[m]>> \o
            SortValuesDescending(SubSeq(rows, 1, m - 1) \o SubSeq(rows, m + 1, Len(rows)), key)

\* the rows of the gameweek in the order of their positions
GwRanking(d, gw) ==
    LET gw_data == SelectIdx(d, RowsOfGw(d, gw), 1)
    IN SortValuesDescending(gw_data, AssignAligned(gw_data, CumPoints(d, gw)))

\* the update of position_history for one row
RecordPosition(ph, team, pos) ==
    IF team \notin DOMAIN ph
    THEN [t \in DOMAIN ph \cup {team} |->
            IF t = team
            THEN [positions |-> <<pos>>, highest |-> pos, lowest |-> pos,
                  weeks_at_top |-> IF pos = 1 THEN 1 ELSE 0, current_streak |-> 1]
            ELSE ph[t]]
    ELSE LET hist == ph[team]
         IN [ph EXCEPT ![team] =
                [positions |-> Append(hist.positions, pos),
                 highest |-> Min(hist.highest, pos),
                 lowest |-> Max(hist.lowest, pos),
                 weeks_at_top |-> hist.weeks_at_top + (IF pos = 1 THEN 1 ELSE 0),
                 current_streak |-> IF pos = hist.positions[Len(hist.positions)]
                                    THEN hist.current_streak + 1 ELSE 1]]

RECURSIVE RecordGw(_, _, _, _)
\* for _, row in gw_data.iterrows()
RecordGw(d, ranking, k, ph) ==
    IF k > Len(ranking) THEN ph
    ELSE RecordGw(d, ranking, k + 1, RecordPosition(ph, d[ranking[k]].entry_name, k))

\* a slip: the highest position taken for the largest number
PositionStatsSwapped(team, hist) ==
    [team |-> team,
     highest_position |-> hist.lowest,
     lowest_position |-> hist.highest,
     weeks_at_top |-> hist.weeks_at_top,
     avg_position |-> Float(SumSeq(hist.positions), Len(hist.positions)),
     position_changes |-> Cardinality({i \in 2..Len(hist.positions) :
                                hist.positions[i] # hist.positions[i - 1]}),
     current_streak |-> hist.current_streak]

\* the row of the result for one team
PositionStats(team, hist) ==
    [team |-> team,
     highest_position |-> hist.highest,
     lowest_position |-> hist.lowest,
     weeks_at_top |-> hist.weeks_at_top,
     avg_position |-> Float(SumSeq(hist.positions), Len(hist.positions)),
     position_changes |-> Cardinality({i \in 2..Len(hist.positions) :
                                hist.positions[i] # hist.positions[i - 1]}),
     current_streak |-> hist.current_streak]

PositionPointsValues == {[points |-> p] : p \in {1, 2, 3}}

InitPositions ==
    LoadedTable(AllTeams, FirstWeeks, PositionPointsValues) /\ pc = "loaded" /\ Idle

TrackLeaguePositions ==
    /\ pc = "loaded"
    /\ pc' = "positions"
    /\ positions' = <<>>
    /\ ps' = [gws |-> SortSetBy(GwsOf(df), [g \in GwsOf(df) |-> g]),
              order |-> <<>>, position_history |-> <<>>]
    /\ UNCHANGED <<df, agg, h2h_data, matrix, fig, streaks, st, loyalty_data, ly,
                   whatif, all_data, fx, output_file,
                   ld, correlations, awards, team_list,
                   chip_stats, predictions, le>>

\* one gameweek: the teams are ranked and their histories updated; order
\* keeps the teams in the order they entered position_history
PositionsGw ==
    /\ pc = "positions" /\ ps.gws # <<>>
    /\ LET ranking == GwRanking(df, Head(ps.gws))
           new == SelectSeq([k \in DOMAIN ranking |-> df[ranking[k]].entry_name],
                            LAMBDA t : t \notin Range(ps.order))
       IN ps' = [gws |-> Tail(ps.gws),
                 order |-> ps.order \o new,
                 position_history |-> RecordGw(df, ranking, 1, ps.position_history)]
    /\ UNCHANGED <<df, pc, agg, h2h_data, matrix, fig, streaks, st, loyalty_data, ly,
                   positions, whatif, all_data, fx, output_file,
                   ld, correlations, awards, team_list,
                   chip_stats, predictions, le>>

\* the final statistics
PositionsCompile ==
    /\ pc = "positions" /\ ps.gws = <<>>
    /\ positions' = [k \in DOMAIN ps.order |->
                        PositionStats(ps.order[k], ps.position_history[ps.order[k]])]
    /\ pc' = "positions_done"
    /\ UNCHANGED <<df, agg, h2h_data, matrix, fig, streaks, st, loyalty_data, ly,
                   ps, whatif, all_data, fx, output_file,
                   ld, correlations, awards, team_list,
                   chip_stats, predictions, le>>

NextPositions == TrackLeaguePositions \/ PositionsGw \/ PositionsCompile

SpecPositions == InitPositions /\ [][NextPositions]_vars

(***************************************************************************)
(* Claims about track_league_positions.                                    *)
(***************************************************************************)
\* the points of a team summed over the gameweeks <= g
CumulativePoints(name, g) ==
    SumCol(df, {i \in RowsOf(df, name) : df[i].gw <= g}, "points")
TeamsOfGw(g) == {df[i].entry_name : i \in RowsOfGw(df, g)}
\* the gameweeks ranked so far
RankedGws == {g \in GwsOf(df) : g \notin Range(ps.gws)}
\* the position the scan gave the team in gameweek g
PositionIn(name, g) ==
    ps.position_history[name].positions[IndexOf(SortedGws(df, name), g)]

\* C2: for every gameweek g, the position of each team with a record in g
\* is its rank by cumulative points over the gameweeks <= g, descending:
\* the team with the highest cumulative total gets position 1, and a team
\* with strictly more cumulative points than another gets a strictly
\* smaller position number.
C2_PositionsByCumulativePoints ==
    pc \in {"positions", "positions_done"} =>
        \A g \in RankedGws : \A a, b \in TeamsOfGw(g) :
            /\ CumulativePoints(a, g) > CumulativePoints(b, g)
                => PositionIn(a, g) < PositionIn(b, g)
            /\ (\A c \in TeamsOfGw(g) \ {a} : CumulativePoints(a, g) > CumulativePoints(c, g))
                => PositionIn(a, g) = 1

(***************************************************************************)
(* analyze_what_if (fpl_data.py).                                          *)
(***************************************************************************)
\* the number of bench values kept by optimal_bench[:11]
BestBenchCount == 11

\* the largest value of col among the rows I
MaxCol(d, I, col) == d[IdxMax(d, I, col)][col]

RECURSIVE TopSum(_, _, _, _)
\* the sum of the n largest values of col among the rows I
TopSum(d, I, col, n) ==
    IF n = 0 \/ I = {} THEN 0
    ELSE LET m == IdxMax(d, I, col)
         IN d[m][col] + TopSum(d, I \ {m}, col, n - 1)

\* team_df.groupby('gw')['captain_points'].max().sum(): team_df holds the
\* rows of the team
MaxCaptainPoints(d, name) ==
    LET gws == {d[i].gw : i \in RowsOf(d, name)}
    IN SumSet(gws, [g \in gws |-> MaxCol(d, RowsOf(d, name) \cap RowsOfGw(d, g), "captain_points")])

\* the gains of the chips the team played
ChipGains(d, name) ==
    LET played == {c \in {"3xc", "bboost", "freehit"} :
                        \E i \in RowsOf(d, name) : d[i].chip = c}
    IN SumSet(played, [c \in played |->
            MaxCol(d, {i \in DOMAIN d : d[i].chip = c}, "points")
            - d[FirstOf({i \in RowsOf(d, name) : d[i].chip = c})].points])

WhatIfRow(d, name) ==
    LET team_df == RowsOf(d, name)
        actual_points == SumCol(d, team_df, "points")
        bench_points == SumCol(d, team_df, "bench")
        optimal_bench == TopSum(d, {i \in team_df : d[i].chip # "bboost"}, "bench", BestBenchCount)
    IN [name |-> name,
        points_with_best_captains |->
            actual_points - SumCol(d, team_df, "captain_points") + MaxCaptainPoints(d, name),
        points_without_hits |-> actual_points + SumCol(d, team_df, "hits"),
        points_with_best_bench |-> actual_points + (optimal_bench - bench_points),
        optimal_chip_gains |-> ChipGains(d, name)]

analyze_what_if(d) ==
    LET names == GroupNames(d) IN [k \in DOMAIN names |-> WhatIfRow(d, names[k])]

WhatIfValues == {[captain_points |-> c, points |-> 5 + c] : c \in {1, 2}}

InitWhatIf == LoadedTable(AllTeams, FirstWeeks, WhatIfValues) /\ pc = "loaded" /\ Idle

AnalyzeWhatIf ==
    /\ pc = "loaded"
    /\ whatif' = analyze_what_if(df)
    /\ pc' = "whatif"
    /\ UNCHANGED <<df, agg, h2h_data, matrix, fig, streaks, st, loyalty_data, ly,
                   positions, ps, all_data, fx, output_file,
                   ld, correlations, awards, team_list,
                   chip_stats, predictions, le>>

NextWhatIf == AnalyzeWhatIf

SpecWhatIf == InitWhatIf /\ [][NextWhatIf]_vars

(***************************************************************************)
(* Claims about analyze_what_if.                                           *)
(***************************************************************************)
\* the highest captain_points any team scored in gameweek g
BestCaptainOfGw(g) ==
    LET P == {df[i].captain_points : i \in RowsOfGw(df, g)}
    IN CHOOSE m \in P : \A x \in P : x <= m

\* C3: for every team, points_with_best_captains is the team's total points
\* minus the sum of its own captain_points plus the sum, over its
\* gameweeks, of the highest captain_points scored by any team of the
\* league that gameweek.
C3_BestCaptainsLeaguewide ==
    pc = "whatif" =>
        \A k \in DOMAIN whatif :
            LET I == RowsOf(df, whatif[k].name)
                gws == {df[i].gw : i \in I}
            IN whatif[k].points_with_best_captains =
                SumCol(df, I, "points") - SumCol(df, I, "captain_points")
                + SumSet(gws, [g \in gws |-> BestCaptainOfGw(g)])

(***************************************************************************)
(* The fetch run (fetch_fpl_league_data.py): one step per (team, gameweek).*)
(***************************************************************************)
NUM_GW == 38

\* live["elements"] as id -> total_points; an id it does not hold scores 0
LivePoints(live, id) == IF id \in DOMAIN live THEN live[id] ELSE 0

\* the None of an element id (element ids are positive)
NoElement == 0

\* next((p["element"] for p in picks_data if p.get(flag)), None)
FirstFlagged(picks_data, flag) ==
    LET hit == {k \in DOMAIN picks_data : picks_data[k][flag]}
    IN IF hit = {} THEN NoElement ELSE picks_data[FirstOf(hit)].element

\* the sum over the automatic substitutions of points in - points out
SubsGain(subs, live) ==
    SumSet(DOMAIN subs, [k \in DOMAIN subs |->
        LivePoints(live, subs[k].element_in) - LivePoints(live, subs[k].element_out)])

\* the record of one team and gameweek, from the picks and live responses
get_manager_data(gw, picks, live) ==
    LET picks_data == picks.picks
        team_with_points ==
            [k \in DOMAIN picks_data |->
                [player_id |-> picks_data[k].element,
                 multiplier |-> picks_data[k].multiplier,
                 points |-> LivePoints(live, picks_data[k].element)]]
        captain == FirstFlagged(picks_data, "is_captain")
        vice_captain_id == FirstFlagged(picks_data, "is_vice_captain")
        captain_played ==
            \E k \in DOMAIN team_with_points :
                /\ captain # NoElement
                /\ team_with_points[k].player_id = captain
                /\ team_with_points[k].multiplier > 1
        captain_id == IF captain_played THEN captain ELSE vice_captain_id
        history == picks.entry_history
        chip == picks.active_chip
        bench_ids == {k \in DOMAIN picks_data : picks_data[k].position > 11}
    IN [gw |-> gw,
        points |-> history.points,
        team |-> team_with_points,
        bench |-> IF chip = "bboost"
                  THEN SumSet(bench_ids, [k \in bench_ids |-> LivePoints(live, picks_data[k].element)])
                  ELSE history.points_on_bench,
        hits |-> history.event_transfers_cost,
        event_transfers |-> history.event_transfers,
        chip |-> chip,
        autosub_count |-> Len(picks.automatic_subs),
        captain_id |-> captain_id,
        captain_points |-> LivePoints(live, captain_id),
        transfer_in_ids |-> [k \in DOMAIN picks.automatic_subs |-> picks.automatic_subs[k].element_in],
        transfer_out_ids |-> [k \in DOMAIN picks.automatic_subs |-> picks.automatic_subs[k].element_out],
        transfer_gain |-> SubsGain(picks.automatic_subs, live)]

\* a slip: gameweek 20 still counts as first half
WildcardLabelLate(gw) == IF gw <= 20 THEN "wildcard1" ELSE "wildcard2"

\* "wildcard1" if data["gw"] < 20 else "wildcard2"
WildcardLabel(gw) == IF gw < 20 THEN "wildcard1" ELSE "wildcard2"

\* the record appended by main() for one successful fetch
FetchedRecord(member, gw, picks, live) ==
    LET data == get_manager_data(gw, picks, live)
        named == [f \in DOMAIN data \cup {"player_name", "entry_name"} |->
                    IF f = "player_name" THEN member.player_name
                    ELSE IF f = "entry_name" THEN member.entry_name
                    ELSE data[f]]
    IN IF named.chip = "wildcard"
       THEN [named EXCEPT !.chip = WildcardLabel(named.gw)]
       ELSE named

\* the league served by the standings pages
FetchLeague ==
    <<[entry |-> 11, player_name |-> "Bea", entry_name |-> "B"],
      [entry |-> 12, player_name |-> "Abe", entry_name |-> "A"]>>

\* the responses of the feed: the chips it may report for an entry in a
\* gameweek (the first entry may play the wildcard in gameweeks 10 and 25,
\* the second in 19 and 20 and the bench boost in 25), the gameweeks in which
\* a request may fail, one squad, one live table
ChipFeed(entry, gw) ==
    IF entry = 11 /\ gw \in {10, 25} THEN {None, "wildcard"}
    ELSE IF entry = 12 /\ gw \in {19, 20} THEN {None, "wildcard"}
    ELSE IF entry = 12 /\ gw = 25 THEN {None, "bboost"}
    ELSE {None}
FailGws == {2}
LiveFeed == [id \in {1, 2, 3} |-> id + 1]
PicksFeed(chip) ==
    [active_chip |-> chip,
     picks |-> <<[element |-> 1, multiplier |-> 2, position |-> 1,
                  is_captain |-> TRUE, is_vice_captain |-> FALSE],
                 [element |-> 2, multiplier |-> 1, position |-> 2,
                  is_captain |-> FALSE, is_vice_captain |-> TRUE],
                 [element |-> 3, multiplier |-> 0, position |-> 12,
                  is_captain |-> FALSE, is_vice_captain |-> FALSE]>>,
     automatic_subs |-> <<>>,
     entry_history |-> [points |-> 5, points_on_bench |-> 4,
                        event_transfers_cost |-> 0, event_transfers |-> 0]]

\* served keeps, for each record of all_data, the chip the feed reported;
\* attempted keeps the (team, gameweek) pairs tried so far and how each ended
InitFetch ==
    /\ pc = "fetching"
    /\ all_data = <<>>
    /\ fx = [league |-> FetchLeague, member |-> 1, gw |-> 1, served |-> <<>>,
             attempted |-> <<>>]
    /\ output_file = Unset
    /\ df = Unset /\ agg = Unset /\ h2h_data = Unset /\ matrix = Unset /\ fig = Unset
    /\ streaks = Unset /\ st = Unset /\ loyalty_data = Unset /\ ly = Unset
    /\ positions = Unset /\ ps = Unset /\ whatif = Unset
    /\ ld = Unset /\ correlations = Unset /\ awards = Unset /\ team_list = Unset
    /\ chip_stats = Unset /\ predictions = Unset /\ le = Unset

\* a slip: the gameweek advances by two
NextTurnByTwo(f) ==
    IF f.gw + 1 < NUM_GW THEN [f EXCEPT !.gw = f.gw + 2]
    ELSE [f EXCEPT !.member = f.member + 1, !.gw = 1]

\* the loop variables after one turn of the inner loop
NextTurn(f) ==
    IF f.gw < NUM_GW THEN [f EXCEPT !.gw = f.gw + 1]
    ELSE [f EXCEPT !.member = f.member + 1, !.gw = 1]

\* a slip: a failed fetch ends the run (break)
AbortRun(f) == [f EXCEPT !.member = Len(f.league) + 1, !.gw = 1]

\* except Exception: continue
SkipTurn(f) == NextTurn(f)

\* one (team, gameweek) is fetched and its record appended
FetchRecord ==
    /\ pc = "fetching" /\ fx.member <= Len(fx.league)
    /\ \E chip \in ChipFeed(fx.league[fx.member].entry, fx.gw) :
        /\ all_data' = Append(all_data,
                FetchedRecord(fx.league[fx.member], fx.gw, PicksFeed(chip), LiveFeed))
        /\ fx' = [NextTurn(fx) EXCEPT
                    !.served = Append(fx.served, chip),
                    !.attempted = Append(fx.attempted, <<fx.member, fx.gw, TRUE>>)]
    /\ UNCHANGED <<df, pc, agg, h2h_data, matrix, fig, streaks, st, loyalty_data, ly,
                   positions, ps, whatif, output_file,
                   ld, correlations, awards, team_list,
                   chip_stats, predictions, le>>

\* the fetch of one (team, gameweek) raises: it is reported and skipped
FetchError ==
    /\ pc = "fetching" /\ fx.member <= Len(fx.league)
    /\ fx.gw \in FailGws
    /\ fx' = [SkipTurn(fx) EXCEPT
                !.attempted = Append(fx.attempted, <<fx.member, fx.gw, FALSE>>)]
    /\ UNCHANGED <<df, pc, agg, h2h_data, matrix, fig, streaks, st, loyalty_data, ly,
                   positions, ps, whatif, all_data, output_file,
                   ld, correlations, awards, team_list,
                   chip_stats, predictions, le>>

\* a record as a line of the csv: a None is written as an empty field
CsvRecord(r) ==
    [r EXCEPT !.chip = IF @ = None THEN "" ELSE @,
              !.captain_id = IF @ = NoElement THEN "" ELSE @]

\* pd.DataFrame(all_data).to_csv(output_file, index=False)
WriteCsv ==
    /\ pc = "fetching" /\ fx.member > Len(fx.league)
    /\ output_file' = [k \in DOMAIN all_data |-> CsvRecord(all_data[k])]
    /\ pc' = "written"
    /\ UNCHANGED <<df, agg, h2h_data, matrix, fig, streaks, st, loyalty_data, ly,
                   positions, ps, whatif, all_data, fx,
                   ld, correlations, awards, team_list,
                   chip_stats, predictions, le>>

NextFetch == FetchRecord \/ FetchError \/ WriteCsv

SpecFetch == InitFetch /\ [][NextFetch]_vars

\* the script runs on: no step of it waits for anything but its own progress
SpecFetchFair == SpecFetch /\ WF_vars(NextFetch)

(***************************************************************************)
(* Claims about the fetch run.                                             *)
(***************************************************************************)
\* C10: every record whose raw chip is "wildcard" is stored with chip
\* wildcard1 when its gameweek is <= 19 and wildcard2 when it is >= 20; no
\* stored record keeps the raw value "wildcard", and every other chip value
\* (none included) is stored unchanged.
C10_WildcardHalves ==
    /\ Len(fx.served) = Len(all_data)
    /\ \A k \in DOMAIN all_data :
        LET r == all_data[k]
            raw == fx.served[k]
        IN /\ r.chip # "wildcard"
           /\ (raw = "wildcard" /\ r.gw <= 19) => r.chip = "wildcard1"
           /\ (raw = "wildcard" /\ r.gw >= 20) => r.chip = "wildcard2"
           /\ raw # "wildcard" => r.chip = raw
    /\ pc = "written" =>
        /\ Len(output_file) = Len(all_data)
        /\ \A k \in DOMAIN all_data :
            output_file[k].chip = IF fx.served[k] = None THEN "" ELSE all_data[k].chip

\* the table is written; one team played the wildcard in gameweeks 10 and
\* 25, another in 19 and 20, and a bench boost and chipless weeks are stored
C10_Witness ==
    LET stored(name, gw, raw, chip) ==
            \E k \in DOMAIN output_file :
                /\ output_file[k].entry_name = name /\ output_file[k].gw = gw
                /\ fx.served[k] = raw /\ output_file[k].chip = chip
    IN /\ pc = "written"
       /\ stored("B", 10, "wildcard", "wildcard1")
       /\ stored("B", 25, "wildcard", "wildcard2")
       /\ stored("A", 19, "wildcard", "wildcard1")
       /\ stored("A", 20, "wildcard", "wildcard2")
       /\ stored("A", 25, "bboost", "bboost")
       /\ stored("B", 1, None, "")

(***************************************************************************)
(* load_data (fpl_data.py).                                                *)
(***************************************************************************)
\* the largest number of columns a generated season file lacks
MaxMissing == 2
\* the largest number of rows of a generated season file
MaxCsvRows == 2

RequiredColumns ==
    {"points", "bench", "hits", "captain_points", "team",
     "chip", "gw", "entry_name", "captain_id", "transfer_gain"}

\* the columns of the file the fetch writes
CsvColumns ==
    RequiredColumns \cup
    {"event_transfers", "autosub_count", "transfer_in_ids", "transfer_out_ids", "player_name"}

\* an exception of the given type, and no exception
Raise(type, message) == [type |-> type, message |-> message]
NoError == Raise("", "")

\* a slip: the column check finds nothing missing
MissingColumnsIgnored(columns) == {}

\* required_columns - set(df.columns)
MissingColumns(columns) == RequiredColumns \ columns

\* the first part of load_data: the season table or the exception raised.
\* read_csv itself raises EmptyDataError for a file without a header line.
ReadSeasonTable(csv) ==
    IF ~csv.exists
    THEN [raised |-> Raise("FileNotFoundError", "Required data file not found"), df |-> Unset]
    ELSE IF ~csv.parses
    THEN [raised |-> Raise("ValueError", "Invalid CSV format"), df |-> Unset]
    ELSE IF csv.columns = {}
    THEN [raised |-> Raise("EmptyDataError", "No columns to parse from file"), df |-> Unset]
    ELSE IF Len(csv.rows) = 0
    THEN [raised |-> Raise("EmptyDataError", "CSV file contains no data"), df |-> Unset]
    ELSE IF MissingColumns(csv.columns) # {}
    THEN [raised |-> Raise("ValueError", "CSV file is missing required columns"), df |-> Unset]
    ELSE [raised |-> NoError, df |-> csv.rows]

EmptyDict == <<>>

\* dict(zip(mapping["id"], mapping["name"])): the last name of a repeated id
DictOf(rows) ==
    [id \in {rows[k].id : k \in DOMAIN rows} |->
        rows[CHOOSE k \in DOMAIN rows :
                /\ rows[k].id = id
                /\ \A j \in DOMAIN rows : rows[j].id = id => j <= k].name]

\* the body of the try: block that reads the mapping; id_to_name is assigned
\* only when nothing was raised before
MappingAttempt(mapping) ==
    IF mapping.state = "absent"
    THEN [raised |-> NoError, id_to_name |-> EmptyDict]
    ELSE IF mapping.state = "unreadable"
    THEN [raised |-> Raise("ValueError", "read_json failed"), id_to_name |-> EmptyDict]
    ELSE IF mapping.state = "malformed"
    THEN [raised |-> Raise("KeyError", "id"), id_to_name |-> EmptyDict]
    ELSE [raised |-> NoError, id_to_name |-> DictOf(mapping.rows)]

\* a slip: the exception is passed on
ExceptNothing(attempt) == attempt

\* except Exception as e: logged, nothing re-raised
ExceptException(attempt) == [attempt EXCEPT !.raised = NoError]

load_data(csv, mapping) ==
    LET table == ReadSeasonTable(csv)
        read == ExceptException(MappingAttempt(mapping))
    IN IF table.raised # NoError
       THEN [returned |-> FALSE, raised |-> table.raised, df |-> Unset, id_to_name |-> Unset]
       ELSE IF read.raised # NoError
       THEN [returned |-> FALSE, raised |-> read.raised, df |-> Unset, id_to_name |-> Unset]
       ELSE [returned |-> TRUE, raised |-> NoError, df |-> table.df, id_to_name |-> read.id_to_name]

\* a row of a season file that has the given columns
CsvRow(columns, name, gw) ==
    [c \in columns |-> IF c \in DOMAIN DefaultRow THEN MkRow(name, gw, <<>>)[c] ELSE 0]

\* the season files: absent, unparseable, without header, or a table that
\* lacks at most MaxMissing columns and has at most MaxCsvRows rows
SeasonFiles ==
    {[exists |-> FALSE, parses |-> FALSE, columns |-> {}, rows |-> <<>>],
     [exists |-> TRUE, parses |-> FALSE, columns |-> {}, rows |-> <<>>],
     [exists |-> TRUE, parses |-> TRUE, columns |-> {}, rows |-> <<>>]}
    \cup
    {[exists |-> TRUE, parses |-> TRUE, columns |-> CsvColumns \ M,
      rows |-> [k \in 1..n |-> CsvRow(CsvColumns \ M, "A", k)]] :
        M \in {X \in SUBSET CsvColumns : Cardinality(X) <= MaxMissing}, n \in 0..MaxCsvRows}

\* the mapping files
MappingFiles ==
    {[state |-> s, rows |-> <<>>] : s \in {"absent", "unreadable", "malformed", "ok"}}
    \cup
    {[state |-> "ok", rows |-> r] :
        r \in {<<[id |-> 1, name |-> "Salah"]>>,
               <<[id |-> 1, name |-> "Salah"], [id |-> 2, name |-> "Kane"]>>,
               <<[id |-> 1, name |-> "Salah"], [id |-> 1, name |-> "M. Salah"]>>}}

InitLoad ==
    /\ pc = "files"
    /\ \E csv \in SeasonFiles, mapping \in MappingFiles :
        ld = [csv |-> csv, mapping |-> mapping, result |-> Unset]
    /\ df = Unset /\ agg = Unset /\ h2h_data = Unset /\ matrix = Unset /\ fig = Unset
    /\ streaks = Unset /\ st = Unset /\ loyalty_data = Unset /\ ly = Unset
    /\ positions = Unset /\ ps = Unset /\ whatif = Unset
    /\ all_data = Unset /\ fx = Unset /\ output_file = Unset
    /\ correlations = Unset /\ awards = Unset /\ team_list = Unset
    /\ chip_stats = Unset /\ predictions = Unset /\ le = Unset

LoadData ==
    /\ pc = "files"
    /\ LET result == load_data(ld.csv, ld.mapping)
       IN /\ ld' = [ld EXCEPT !.result = result]
          /\ df' = result.df
          /\ pc' = IF result.returned THEN "loaded" ELSE "load_failed"
    /\ UNCHANGED <<agg, h2h_data, matrix, fig, streaks, st, loyalty_data, ly,
                   positions, ps, whatif, all_data, fx, output_file,
                   correlations, awards, team_list,
                   chip_stats, predictions, le>>

NextLoad == LoadData

SpecLoad == InitLoad /\ [][NextLoad]_vars

(***************************************************************************)
(* Claims about load_data.                                                 *)
(***************************************************************************)
LoadDone == pc \in {"loaded", "load_failed"} /\ ld # Unset

\* the call raised an exception of this type with this message, no table
LoadFailedWith(type, message) ==
    /\ pc = "load_failed" /\ ~ld.result.returned
    /\ ld.result.raised = Raise(type, message)
    /\ df = Unset /\ ld.result.df = Unset

\* C12: load_data fails, returning no table, with a missing-file error when
\* the season file does not exist, with an empty-data error when the table
\* has zero rows, and with a schema error when any of the ten required
\* columns is absent (of a table that has rows: the empty check comes
\* first); a table with at least one row and all required columns is
\* returned.
C12_LoadDataErrors ==
    LoadDone =>
        LET csv == ld.csv
            readable == csv.exists /\ csv.parses
        IN /\ ~csv.exists => LoadFailedWith("FileNotFoundError", "Required data file not found")
           /\ (readable /\ csv.columns # {} /\ Len(csv.rows) = 0) =>
                LoadFailedWith("EmptyDataError", "CSV file contains no data")
           /\ (readable /\ Len(csv.rows) = 0) =>
                (pc = "load_failed" /\ ld.result.raised.type = "EmptyDataError" /\ df = Unset)
           /\ \A c \in RequiredColumns :
                (readable /\ Len(csv.rows) > 0 /\ c \notin csv.columns) =>
                    LoadFailedWith("ValueError", "CSV file is missing required columns")
           /\ (readable /\ Len(csv.rows) > 0 /\ RequiredColumns \subseteq csv.columns) =>
                (pc = "loaded" /\ ld.result.returned /\ df = csv.rows /\ df # <<>>)

\* a table with rows that lacks exactly one required column was refused
C12_Witness ==
    /\ LoadDone
    /\ ld.csv.exists /\ ld.csv.parses /\ Len(ld.csv.rows) = MaxCsvRows
    /\ Cardinality(RequiredColumns \ ld.csv.columns) = 1
    /\ "event_transfers" \notin ld.csv.columns
    /\ LoadFailedWith("ValueError", "CSV file is missing required columns")

\* the season table is valid
ValidSeasonFile ==
    /\ ld.csv.exists /\ ld.csv.parses
    /\ Len(ld.csv.rows) > 0 /\ RequiredColumns \subseteq ld.csv.columns

\* C13: when the season table is valid but the mapping file is missing or
\* cannot be read or parsed, load_data raises nothing and returns the season
\* table together with an empty mapping.
C13_MappingFailureNotFatal ==
    (LoadDone /\ ValidSeasonFile /\ ld.mapping.state # "ok") =>
        /\ pc = "loaded" /\ ld.result.returned /\ ld.result.raised = NoError
        /\ df = ld.csv.rows
        /\ ld.result.id_to_name = EmptyDict

\* a valid table was returned with an empty mapping from an unparseable file
C13_Witness ==
    /\ LoadDone /\ ValidSeasonFile
    /\ ld.mapping.state = "malformed"
    /\ pc = "loaded" /\ df = ld.csv.rows /\ ld.result.id_to_name = EmptyDict

\* the k-th (team, gameweek) pair of the run: teams in league order, each
\* with the gameweeks 1..NUM_GW ascending
PairAt(k) == <<((k - 1) \div NUM_GW) + 1, ((k - 1) % NUM_GW) + 1>>

\* the attempts that succeeded, in order
Succeeded == SelectSeq(fx.attempted, LAMBDA a : a[3])

\* the pairs are attempted in order and none is left out; the records are
\* those of the attempts that succeeded, one each, in the same order; the
\* table is written only after the last pair
FetchOrder ==
    /\ \A k \in DOMAIN fx.attempted :
        <<fx.attempted[k][1], fx.attempted[k][2]>> = PairAt(k)
    /\ Len(all_data) = Len(Succeeded)
    /\ \A j \in DOMAIN all_data :
        /\ all_data[j].entry_name = fx.league[Succeeded[j][1]].entry_name
        /\ all_data[j].gw = Succeeded[j][2]
    /\ pc = "written" =>
        /\ Len(fx.attempted) = Len(fx.league) * NUM_GW
        /\ Len(output_file) = Len(all_data)
    /\ pc # "written" => output_file = Unset

\* C14: teams are processed in league order and gameweeks 1..38 ascending;
\* a failed fetch of one (team, gameweek) appends no record and does not
\* stop the run: every later pair is still attempted, every successful pair
\* contributes exactly one record, and the table is written once, after all
\* pairs were attempted.
C14_FetchRunsThroughFailures ==
    /\ []FetchOrder
    /\ [][pc = "written" => output_file' = output_file]_vars
    /\ <>(pc = "written")

\* the table is written after a failure in the first team's second gameweek,
\* the next gameweek and the next team having been fetched, and after a run
\* in which the second team's fetch failed as well
C14_Witness ==
    /\ pc = "written"
    /\ fx.attempted[2] = <<1, 2, FALSE>>
    /\ fx.attempted[3] = <<1, 3, TRUE>>
    /\ fx.attempted[NUM_GW + 2] = <<2, 2, FALSE>>
    /\ Len(all_data) = 2 * NUM_GW - 2
    /\ all_data[2].gw = 3 /\ all_data[NUM_GW].entry_name = "A"

\* the records of a team in the written table, and their gameweeks
RecordsOf(name) == {k \in DOMAIN all_data : all_data[k].entry_name = name}
GameweeksOf(name) == {all_data[k].gw : k \in RecordsOf(name)}
FetchedTeams == {fx.league[m].entry_name : m \in DOMAIN fx.league}

\* C19 as stated: for every team the gameweeks of its records are exactly
\* 1..N for some N, none missing in between and none twice.
C19_GameweeksContiguous ==
    pc = "written" =>
        \A name \in FetchedTeams :
            /\ GameweeksOf(name) = 1..Cardinality(GameweeksOf(name))
            /\ Cardinality(RecordsOf(name)) = Cardinality(GameweeksOf(name))

\* C19 amended: for every team the gameweeks of its records are distinct,
\* lie in 1..38 and ascend in file order; a gameweek of 1..38 is missing
\* exactly when its fetch failed, so the gameweeks are 1..38 for a team with
\* no failed fetch.
C19_GameweeksDistinctGapsWhereFailed ==
    pc = "written" =>
        \A m \in DOMAIN fx.league :
            LET name == fx.league[m].entry_name
                failed == {g \in 1..NUM_GW : <<m, g, FALSE>> \in Range(fx.attempted)}
            IN /\ \A j, k \in RecordsOf(name) : j < k => all_data[j].gw < all_data[k].gw
               /\ GameweeksOf(name) \subseteq 1..NUM_GW
               /\ (1..NUM_GW) \ GameweeksOf(name) = failed
               /\ failed = {} => GameweeksOf(name) = 1..NUM_GW

\* one team has its second gameweek missing and the third present, the
\* other has all 38
C19_Witness ==
    /\ pc = "written"
    /\ GameweeksOf("B") = (1..NUM_GW) \ {2}
    /\ GameweeksOf("A") = 1..NUM_GW

(***************************************************************************)
(* The report script (fpl_generate_report_v3.py), from its chip awards on: *)
(* awards holds the awards appended from there on.                         *)
(***************************************************************************)
\* add_award(title, team, reason, value): the entry appended (titles
\* without their diacritics; the reason text is left out)
Award(title, team, value) == [Nagroda |-> title, Druzyna |-> team, Wartosc |-> value]

\* df[df["chip"] == chip]
ChipRows(d, chip) == {i \in DOMAIN d : d[i].chip = chip}

\* the rows that sort_values(col, ascending=False).iloc[0] may give: the
\* default sort does not fix the order of rows with equal values
TopRows(d, I, col) == {i \in I : \A j \in I : d[i][col] >= d[j][col]}

\* the award for the best record with a chip, if the chip was played at all
ChipAward(d, chip, title, col, factor, list) ==
    IF ChipRows(d, chip) = {}
    THEN {list}
    ELSE {Append(list, Award(title, d[i].entry_name, d[i][col] * factor)) :
            i \in TopRows(d, ChipRows(d, chip), col)}

\* groupby("entry_name")["points"].shift(1) over the table sorted by
\* entry_name and gw, aligned by row label: the points of the team's
\* previous record, NaN for its first
PrevPoints(d, i) ==
    LET before == {j \in RowsOf(d, d[i].entry_name) : d[j].gw < d[i].gw}
    IN IF before = {} THEN NaN
       ELSE LET j == CHOOSE j \in before : \A k \in before : d[k].gw <= d[j].gw
            IN Float(d[j].points, 1)

\* df[col] = values: the table with one more column
WithColumn(d, col, values) ==
    [i \in DOMAIN d |->
        [c \in DOMAIN d[i] \cup {col} |-> IF c = col THEN values[i] ELSE d[i][c]]]

\* the player_ids of picked_starting, in the order of the exploded lists
RECURSIVE PickedStarting(_, _)
PickedStarting(d, i) ==
    IF i > Len(d) THEN <<>>
    ELSE LET squad == d[i].team_list
             ids == [k \in DOMAIN squad |-> squad[k].player_id]
             starting == SelectSeq([k \in DOMAIN squad |-> k], LAMBDA k : squad[k].multiplier > 0)
         IN [k \in DOMAIN starting |-> ids[starting[k]]] \o PickedStarting(d, i + 1)

\* Counter(ids).most_common(1): the id counted most often, the one met first
\* among equals, with its count; empty for no ids
MostCommon(ids) ==
    LET count(p) == Cardinality({k \in DOMAIN ids : ids[k] = p})
        first(p) == CHOOSE k \in DOMAIN ids : ids[k] = p /\ \A j \in DOMAIN ids : ids[j] = p => k <= j
        top == {p \in Range(ids) : \A q \in Range(ids) : count(p) >= count(q)}
    IN IF ids = <<>> THEN <<>>
       ELSE LET p == CHOOSE p \in top : \A q \in top : first(p) <= first(q)
            IN <<[id |-> p, count |-> count(p)]>>

\* id_to_name.get(top_player_id, str(top_player_id))
PlayerName(id_to_name, id) == IF id \in DOMAIN id_to_name THEN id_to_name[id] ELSE ToString(id)

\* df[df["chip"].notna()].groupby("entry_name")["chip"].count(): the teams
\* that played a chip, sorted, with the number of their chip records
ChipsUsed(d) ==
    LET used == {i \in DOMAIN d : d[i].chip # NoChip}
        names == {d[i].entry_name : i \in used}
        sorted == SortSetBy(names, [n \in names |-> NameRank(n)])
    IN [k \in DOMAIN sorted |->
            [entry_name |-> sorted[k], chip |-> Cardinality(used \cap RowsOf(d, sorted[k]))]]

\* the state of the script: its position, the table, the award list, and the
\* uncaught exception that ended it, if any
ReportFailed(type) == [raised |-> type, list |-> <<>>]
ReportAwards(list) == [raised |-> "", list |-> list]

ReportTeams == {"A", "B"}
ReportChips == {NoChip, "bboost", "3xc", "freehit"}
\* a squad with a starter and a captain, and a squad of one benched player
ReportSquads ==
    {<<[player_id |-> 1, multiplier |-> 1, points |-> 2],
       [player_id |-> 2, multiplier |-> 2, points |-> 3]>>,
     <<[player_id |-> 2, multiplier |-> 0, points |-> 1]>>}
ReportValues == {[chip |-> c, team |-> t] : c \in ReportChips, t \in ReportSquads}
ReportMapping == <<[id |-> 1, name |-> "Salah"]>>

\* the script has read the table and the mapping and added the awards of
\* the aggregate table; ld keeps the table as it was read
InitReport ==
    /\ LoadedTable(ReportTeams, FirstWeeks, ReportValues)
    /\ pc = "award_bboost"
    /\ awards = ReportAwards(<<>>)
    /\ ld = [result |-> [returned |-> TRUE, raised |-> NoError, df |-> df,
                         id_to_name |-> DictOf(ReportMapping)]]
    /\ agg = Unset /\ h2h_data = Unset /\ matrix = Unset /\ fig = Unset
    /\ streaks = Unset /\ st = Unset /\ loyalty_data = Unset /\ ly = Unset
    /\ positions = Unset /\ ps = Unset /\ whatif = Unset
    /\ all_data = Unset /\ fx = Unset /\ output_file = Unset
    /\ correlations = Unset /\ team_list = Unset
    /\ chip_stats = Unset /\ predictions = Unset /\ le = Unset

\* bb = df[df["chip"] == "bboost"]; if not bb.empty: ...
AwardBenchBoost ==
    /\ pc = "award_bboost"
    /\ \E list \in ChipAward(df, "bboost", "Mykolenko w koncu punktuje", "bench", 1, awards.list) :
        awards' = ReportAwards(list)
    /\ pc' = "award_3xc"
    /\ UNCHANGED <<df, agg, h2h_data, matrix, fig, streaks, st, loyalty_data, ly,
                   positions, ps, whatif, all_data, fx, output_file,
                   ld, correlations, team_list,
                   chip_stats, predictions, le>>

\* tc = df[df["chip"] == "3xc"]; if not tc.empty: ...
AwardTripleCaptain ==
    /\ pc = "award_3xc"
    /\ \E list \in ChipAward(df, "3xc", "Salah czy nie Salah?", "captain_points", 3, awards.list) :
        awards' = ReportAwards(list)
    /\ pc' = "award_freehit"
    /\ UNCHANGED <<df, agg, h2h_data, matrix, fig, streaks, st, loyalty_data, ly,
                   positions, ps, whatif, all_data, fx, output_file,
                   ld, correlations, team_list,
                   chip_stats, predictions, le>>

\* df["prev_points"] = ...; fh = df[df["chip"] == "freehit"]; if not fh.empty: ...
AwardFreeHit ==
    /\ pc = "award_freehit"
    /\ df' = WithColumn(df, "prev_points", [i \in DOMAIN df |-> PrevPoints(df, i)])
    /\ \E list \in ChipAward(df', "freehit", "Upolowane", "points", 1, awards.list) :
        awards' = ReportAwards(list)
    /\ pc' = "award_picked"
    /\ UNCHANGED <<agg, h2h_data, matrix, fig, streaks, st, loyalty_data, ly,
                   positions, ps, whatif, all_data, fx, output_file,
                   ld, correlations, team_list,
                   chip_stats, predictions, le>>

\* df["team_list"] = ...; counts.most_common(1)[0] raises IndexError when no
\* starting player was counted
AwardMostPicked ==
    /\ pc = "award_picked"
    /\ df' = WithColumn(df, "team_list", [i \in DOMAIN df |-> df[i].team])
    /\ LET top == MostCommon(PickedStarting(df', 1))
       IN IF top = <<>>
          THEN /\ awards' = ReportFailed("IndexError")
               /\ pc' = "report_failed"
          ELSE /\ awards' = ReportAwards(Append(awards.list,
                    Award("Bez niego ani rusz",
                          PlayerName(ld.result.id_to_name, top[1].id), top[1].count)))
               /\ pc' = "award_extremes"
    /\ UNCHANGED <<agg, h2h_data, matrix, fig, streaks, st, loyalty_data, ly,
                   positions, ps, whatif, all_data, fx, output_file,
                   ld, correlations, team_list,
                   chip_stats, predictions, le>>

\* the lowest and highest scores and bench scores of the season
AwardSeasonExtremes ==
    /\ pc = "award_extremes"
    /\ LET min_row == df[IdxMin(df, DOMAIN df, "points")]
           max_row == df[IdxMax(df, DOMAIN df, "points")]
           bench_max == df[IdxMax(df, DOMAIN df, "bench")]
           bench_min == df[IdxMin(df, DOMAIN df, "bench")]
       IN awards' = ReportAwards(awards.list \o
            <<Award("Najnizszy wynik w sezonie", min_row.entry_name, min_row.points),
              Award("Najwyzszy wynik w sezonie", max_row.entry_name, max_row.points),
              Award("Najwyzszy wynik lawki w sezonie", bench_max.entry_name, bench_max.bench),
              Award("Najnizszy wynik lawki w sezonie", bench_min.entry_name, bench_min.bench)>>)
    /\ pc' = "award_chips"
    /\ UNCHANGED <<df, agg, h2h_data, matrix, fig, streaks, st, loyalty_data, ly,
                   positions, ps, whatif, all_data, fx, output_file,
                   ld, correlations, team_list,
                   chip_stats, predictions, le>>

\* chips_used.min(), chips_used.idxmin(): idxmin raises ValueError for an
\* empty series
AwardFewestChips ==
    /\ pc = "award_chips"
    /\ LET chips_used == ChipsUsed(df)
       IN IF chips_used = <<>>
          THEN /\ awards' = ReportFailed("ValueError")
               /\ pc' = "report_failed"
          ELSE LET k == IdxMin(chips_used, DOMAIN chips_used, "chip")
               IN /\ awards' = ReportAwards(Append(awards.list,
                        Award("Najoszczedniejszy gracz", chips_used[k].entry_name, chips_used[k].chip)))
                  /\ pc' = "awards_done"
    /\ UNCHANGED <<df, agg, h2h_data, matrix, fig, streaks, st, loyalty_data, ly,
                   positions, ps, whatif, all_data, fx, output_file,
                   ld, correlations, team_list,
                   chip_stats, predictions, le>>

NextReport ==
    \/ AwardBenchBoost \/ AwardTripleCaptain \/ AwardFreeHit
    \/ AwardMostPicked \/ AwardSeasonExtremes \/ AwardFewestChips

SpecReport == InitReport /\ [][NextReport]_vars

(***************************************************************************)
(* Claims about the report.                                                *)
(***************************************************************************)
\* the table as it was read
LoadedDf == ld.result.df
AwardTitles == {awards.list[k].Nagroda : k \in DOMAIN awards.list}
NoStartingPlayer ==
    \A i \in DOMAIN LoadedDf : \A k \in DOMAIN LoadedDf[i].team : LoadedDf[i].team[k].multiplier <= 0

\* C15: the award list holds no award for a metric whose qualifying subset
\* of records is empty, and building the list does not fail then: without a
\* bench-boost, triple-captain or free-hit record that award is absent, and
\* so are the fewest-chips award when no team used a chip and the
\* most-picked-player award when no starting player exists.
C15_NoAwardForEmptySubset ==
    /\ pc # "report_failed"
    /\ awards.raised = ""
    /\ pc = "awards_done" =>
        /\ ChipRows(LoadedDf, "bboost") = {} => "Mykolenko w koncu punktuje" \notin AwardTitles
        /\ ChipRows(LoadedDf, "3xc") = {} => "Salah czy nie Salah?" \notin AwardTitles
        /\ ChipRows(LoadedDf, "freehit") = {} => "Upolowane" \notin AwardTitles
        /\ ChipsUsed(LoadedDf) = <<>> => "Najoszczedniejszy gracz" \notin AwardTitles
        /\ NoStartingPlayer => "Bez niego ani rusz" \notin AwardTitles

FloatAdd(x, y) ==
    IF x.nan \/ y.nan THEN NaN ELSE Float(x.num * y.den + y.num * x.den, x.den * y.den)

RECURSIVE FloatSum(_)
FloatSum(s) == IF s = <<>> THEN Float(0, 1) ELSE FloatAdd(Head(s), FloatSum(Tail(s)))

\* {p['player_id'] for p in literal_eval(row['team'])}
PlayerIds(row) == {row.team[k].player_id : k \in DOMAIN row.team}

\* the gameweeks of df['gw'].unique() for which both teams have a row, in
\* order of first appearance
SharedGwSeq(d, team1, team2) ==
    LET shared == {g \in GwsOf(d) : /\ RowsOf(d, team1) \cap RowsOfGw(d, g) # {}
                                    /\ RowsOf(d, team2) \cap RowsOfGw(d, g) # {}}
    IN SortSetBy(shared, [g \in shared |-> FirstOf(RowsOfGw(d, g))])

\* t1_gw[col].iloc[0]
FirstRow(d, team, gw) == d[FirstOf(RowsOf(d, team) \cap RowsOfGw(d, gw))]

\* captain_id == captain_id: a captain_id that was None is read back as NaN,
\* which equals nothing
SameCaptain(a, b) == a = b /\ a # NoElement

\* chip == chip and chip: a missing chip is read back as NaN, which equals
\* nothing
SameChip(a, b) == a = b /\ a # NoChip /\ a # ""

\* Series.corr of the merged event_transfers: NaN for fewer than two pairs
\* or a constant column, else the sign and the square of Pearson's r
TransferCorr(d, team1, team2) ==
    LET gws == SharedGwSeq(d, team1, team2)
        n == Len(gws)
        x == [k \in DOMAIN gws |-> FirstRow(d, team1, gws[k]).event_transfers]
        y == [k \in DOMAIN gws |-> FirstRow(d, team2, gws[k]).event_transfers]
        sx == SumSeq(x)
        sy == SumSeq(y)
        cov == n * SumSeq([k \in DOMAIN gws |-> x[k] * y[k]]) - sx * sy
        vx == n * SumSeq([k \in DOMAIN gws |-> x[k] * x[k]]) - sx * sx
        vy == n * SumSeq([k \in DOMAIN gws |-> y[k] * y[k]]) - sy * sy
    IN IF n < 2 \/ vx = 0 \/ vy = 0
       THEN [nan |-> TRUE, sign |-> 0, square |-> NaN]
       ELSE [nan |-> FALSE,
             sign |-> IF cov > 0 THEN 1 ELSE IF cov < 0 THEN -1 ELSE 0,
             square |-> Float(cov * cov, vx * vy)]

\* the entry appended for one pair of teams, or the ZeroDivisionError of a
\* week in which both squads are empty or of a pair that shares no gameweek
CorrelationRow(d, team1, team2) ==
    LET gws == SharedGwSeq(d, team1, team2)
        t1(k) == FirstRow(d, team1, gws[k])
        t2(k) == FirstRow(d, team2, gws[k])
        captain_same_gws == Cardinality({k \in DOMAIN gws : SameCaptain(t1(k).captain_id, t2(k).captain_id)})
        chip_same_gws == Cardinality({k \in DOMAIN gws : SameChip(t1(k).chip, t2(k).chip)})
        squad_similarity ==
            [k \in DOMAIN gws |->
                Float(Cardinality(PlayerIds(t1(k)) \cap PlayerIds(t2(k))),
                      Cardinality(PlayerIds(t1(k)) \cup PlayerIds(t2(k))))]
        total == FloatSum(squad_similarity)
    IN IF \/ \E k \in DOMAIN gws : PlayerIds(t1(k)) \cup PlayerIds(t2(k)) = {}
          \/ gws = <<>>
       THEN [raised |-> "ZeroDivisionError"]
       ELSE [raised |-> "",
             team_1 |-> team1,
             team_2 |-> team2,
             squad_similarity |-> Float(total.num, total.den * Len(gws)),
             captain_similarity |-> Float(captain_same_gws, Cardinality(GwsOf(d))),
             transfer_correlation |-> TransferCorr(d, team1, team2),
             chip_similarity |-> Float(chip_same_gws, Max(1, Cardinality({i \in DOMAIN d : d[i].chip # ""})))]

\* for i, team1 in enumerate(teams): for team2 in teams[i+1:]: the entries so
\* far, until one raises
RECURSIVE CorrelationLoop(_, _, _, _, _)
CorrelationLoop(d, teams, i, j, rows) ==
    IF i > Len(teams) THEN [raised |-> "", rows |-> rows]
    ELSE IF j > Len(teams) THEN CorrelationLoop(d, teams, i + 1, i + 2, rows)
    ELSE LET row == CorrelationRow(d, teams[i], teams[j])
         IN IF row.raised # ""
            THEN [raised |-> row.raised, rows |-> <<>>]
            ELSE CorrelationLoop(d, teams, i, j + 1, Append(rows, row))

analyze_team_correlation(d) == CorrelationLoop(d, UniqueNames(d), 1, 2, <<>>)

\* a squad of one player, and the empty squad of a gameweek without picks
CorrelationSquads == {<<>>, <<[player_id |-> 1, multiplier |-> 1, points |-> 2]>>}
CorrelationValues == {[captain_id |-> c, team |-> t] : c \in {1, 2}, t \in CorrelationSquads}

InitCorrelation ==
    LoadedTable(AllTeams, FirstWeeks, CorrelationValues) /\ pc = "loaded" /\ Idle

AnalyzeTeamCorrelation ==
    /\ pc = "loaded"
    /\ correlations' = analyze_team_correlation(df)
    /\ pc' = "correlated"
    /\ UNCHANGED <<df, agg, h2h_data, matrix, fig, streaks, st, loyalty_data, ly,
                   positions, ps, whatif, all_data, fx, output_file,
                   ld, awards, team_list,
                   chip_stats, predictions, le>>

NextCorrelation == AnalyzeTeamCorrelation

SpecCorrelation == InitCorrelation /\ [][NextCorrelation]_vars

(***************************************************************************)
(* Claims about analyze_team_correlation.                                  *)
(***************************************************************************)
\* C16: every analytics function of fpl_data terminates and returns a
\* result, without raising, for every non-empty table that passes the
\* loader's checks, tables in which teams have gaps, two teams share no
\* gameweek or a squad list is empty included (here: analyze_team_correlation).
C16_AnalyticsTotal ==
    pc = "correlated" =>
        /\ correlations.raised = ""
        /\ Len(correlations.rows) = (Len(UniqueNames(df)) * (Len(UniqueNames(df)) - 1)) \div 2

\* C20: for every pair of teams captain_similarity is the number of
\* gameweeks both teams have a record for and in which both have the same
\* captain_id, divided by the number of gameweeks both have a record for; it
\* is 1 when the two chose the same captain in every shared gameweek.
C20_CaptainSimilarityOverShared ==
    (pc = "correlated" /\ correlations.raised = "") =>
        \A k \in DOMAIN correlations.rows :
            LET row == correlations.rows[k]
                shared == SharedGws(row.team_1, row.team_2)
                same == {g \in shared :
                            FirstRow(df, row.team_1, g).captain_id = FirstRow(df, row.team_2, g).captain_id}
            IN /\ FloatIs(row.captain_similarity, Cardinality(same), Cardinality(shared))
               /\ same = shared => FloatIs(row.captain_similarity, 1, 1)

(***************************************************************************)
(* The squad column from the fetch to the analytics: str() of the list in  *)
(* to_csv, read_csv, literal_eval.  A text is a sequence of symbols: the   *)
(* quoted keys are one symbol each, everything else is one character.      *)
(***************************************************************************)
\* the largest number of entries of a generated squad
MaxSquad == 2

DigitChars == <<"0", "1", "2", "3", "4", "5", "6", "7", "8", "9">>

\* str(n) for n >= 0
RECURSIVE Digits(_)
Digits(n) == IF n < 10 THEN <<DigitChars[n + 1]>> ELSE Digits(n \div 10) \o <<DigitChars[(n % 10) + 1]>>

\* a slip: the sign is lost
IntReprUnsigned(n) == Digits(Abs(n))

\* str(n)
IntRepr(n) == IF n < 0 THEN <<"-">> \o Digits(-n) ELSE Digits(n)

\* str() of one entry of team_with_points, keys in insertion order
DictRepr(p) ==
    <<"{", "'player_id'", ":", " ">> \o IntRepr(p.player_id)
    \o <<",", " ", "'multiplier'", ":", " ">> \o IntRepr(p.multiplier)
    \o <<",", " ", "'points'", ":", " ">> \o IntRepr(p.points) \o <<"}">>

\* str() of the list
RECURSIVE ItemsRepr(_)
ItemsRepr(team) ==
    IF team = <<>> THEN <<>>
    ELSE IF Len(team) = 1 THEN DictRepr(team[1])
    ELSE DictRepr(team[1]) \o <<",", " ">> \o ItemsRepr(Tail(team))
ListRepr(team) == <<"[">> \o ItemsRepr(team) \o <<"]">>

\* the csv writer quotes a field that holds the delimiter
CsvQuote(text) ==
    IF \E k \in DOMAIN text : text[k] = "," THEN <<"\"">> \o text \o <<"\"">> ELSE text

\* the csv reader takes the quotes off a quoted field
CsvUnquote(field) ==
    IF Len(field) >= 2 /\ field[1] = "\"" /\ field[Len(field)] = "\""
    THEN SubSeq(field, 2, Len(field) - 1)
    ELSE field

\* literal_eval, for the literals the fetch writes: a list of dicts with
\* quoted keys and integer values.  Each parser gives the value read and
\* the position after it, or ok = FALSE.
At(t, i) == IF i \in DOMAIN t THEN t[i] ELSE ""
IsDigit(c) == \E d \in DOMAIN DigitChars : DigitChars[d] = c
DigitValue(c) == (CHOOSE d \in DOMAIN DigitChars : DigitChars[d] = c) - 1
KeyNames == [k \in {"'player_id'", "'multiplier'", "'points'"} |->
                IF k = "'player_id'" THEN "player_id"
                ELSE IF k = "'multiplier'" THEN "multiplier" ELSE "points"]
ParseError == [ok |-> FALSE, value |-> <<>>, next |-> 0]

RECURSIVE SkipSpaces(_, _)
SkipSpaces(t, i) == IF At(t, i) = " " THEN SkipSpaces(t, i + 1) ELSE i

RECURSIVE ParseDigits(_, _, _)
ParseDigits(t, i, acc) ==
    IF IsDigit(At(t, i)) THEN ParseDigits(t, i + 1, acc * 10 + DigitValue(At(t, i)))
    ELSE [ok |-> TRUE, value |-> acc, next |-> i]

ParseInt(t, i) ==
    LET from == IF At(t, i) = "-" THEN i + 1 ELSE i
        digits == ParseDigits(t, from, 0)
    IN IF ~IsDigit(At(t, from)) THEN ParseError
       ELSE IF from > i THEN [digits EXCEPT !.value = -digits.value]
       ELSE digits

\* the items of a dict after its brace: items holds the (key, value) pairs
RECURSIVE ParseDictItems(_, _, _)
ParseDictItems(t, i, items) ==
    LET k == SkipSpaces(t, i)
        colon == SkipSpaces(t, k + 1)
        number == ParseInt(t, SkipSpaces(t, colon + 1))
        after == SkipSpaces(t, number.next)
        read == Append(items, <<KeyNames[At(t, k)], number.value>>)
    IN IF At(t, k) \notin DOMAIN KeyNames \/ At(t, colon) # ":" THEN ParseError
       ELSE IF ~number.ok THEN ParseError
       ELSE IF At(t, after) = "," THEN ParseDictItems(t, after + 1, read)
       ELSE IF At(t, after) = "}" THEN [ok |-> TRUE, value |-> read, next |-> after + 1]
       ELSE ParseError

\* the dict of the pairs: the last value of a repeated key
DictOfItems(items) ==
    [key \in {items[k][1] : k \in DOMAIN items} |->
        items[CHOOSE k \in DOMAIN items :
                /\ items[k][1] = key
                /\ \A j \in DOMAIN items : items[j][1] = key => j <= k][2]]

ParseDict(t, i) ==
    LET open == SkipSpaces(t, i)
        items == ParseDictItems(t, open + 1, <<>>)
    IN IF At(t, open) # "{" THEN ParseError
       ELSE IF At(t, SkipSpaces(t, open + 1)) = "}"
       THEN [ok |-> TRUE, value |-> <<>>, next |-> SkipSpaces(t, open + 1) + 1]
       ELSE IF ~items.ok THEN ParseError
       ELSE [items EXCEPT !.value = DictOfItems(items.value)]

RECURSIVE ParseListItems(_, _, _)
ParseListItems(t, i, list) ==
    LET dict == ParseDict(t, i)
        after == SkipSpaces(t, dict.next)
    IN IF ~dict.ok THEN ParseError
       ELSE IF At(t, after) = "," THEN ParseListItems(t, after + 1, Append(list, dict.value))
       ELSE IF At(t, after) = "]"
       THEN [ok |-> TRUE, value |-> Append(list, dict.value), next |-> after + 1]
       ELSE ParseError

\* literal_eval(text): the list, or ok = FALSE where it raises
literal_eval(t) ==
    LET open == SkipSpaces(t, 1)
        empty == SkipSpaces(t, open + 1)
        items == ParseListItems(t, open + 1, <<>>)
        result == IF At(t, empty) = "]"
                  THEN [ok |-> TRUE, value |-> <<>>, next |-> empty + 1]
                  ELSE items
    IN IF At(t, open) # "[" THEN ParseError
       ELSE IF ~result.ok THEN ParseError
       ELSE IF SkipSpaces(t, result.next) # Len(t) + 1 THEN ParseError
       ELSE result

\* the entries of a squad: ids and points of one and several digits, a
\* negative score, the multipliers of a benched player and of a captain
SquadEntries ==
    {[player_id |-> p, multiplier |-> m, points |-> q] :
        p \in {7, 123}, m \in {0, 3}, q \in {-2, 0, 15}}
SquadLists == UNION {[1..n -> SquadEntries] : n \in 0..MaxSquad}

\* the fetch has collected one record, with this squad
InitRoundTrip ==
    /\ pc = "collected"
    /\ \E team \in SquadLists : all_data = <<[team |-> team]>>
    /\ df = Unset /\ agg = Unset /\ h2h_data = Unset /\ matrix = Unset /\ fig = Unset
    /\ streaks = Unset /\ st = Unset /\ loyalty_data = Unset /\ ly = Unset
    /\ positions = Unset /\ ps = Unset /\ whatif = Unset
    /\ fx = Unset /\ output_file = Unset
    /\ ld = Unset /\ correlations = Unset /\ awards = Unset /\ team_list = Unset
    /\ chip_stats = Unset /\ predictions = Unset /\ le = Unset

\* pd.DataFrame(all_data).to_csv(output_file): the squad column as text
WriteTeams ==
    /\ pc = "collected"
    /\ output_file' = [k \in DOMAIN all_data |-> [team |-> CsvQuote(ListRepr(all_data[k].team))]]
    /\ pc' = "written"
    /\ UNCHANGED <<df, agg, h2h_data, matrix, fig, streaks, st, loyalty_data, ly,
                   positions, ps, whatif, all_data, fx,
                   ld, correlations, awards, team_list,
                   chip_stats, predictions, le>>

\* pd.read_csv(csv_path)
ReadTeams ==
    /\ pc = "written"
    /\ df' = [k \in DOMAIN output_file |-> [team |-> CsvUnquote(output_file[k].team)]]
    /\ pc' = "loaded"
    /\ UNCHANGED <<agg, h2h_data, matrix, fig, streaks, st, loyalty_data, ly,
                   positions, ps, whatif, all_data, fx, output_file,
                   ld, correlations, awards, team_list,
                   chip_stats, predictions, le>>

\* literal_eval(row['team']) of every row
ParseTeams ==
    /\ pc = "loaded"
    /\ team_list' = [k \in DOMAIN df |-> literal_eval(df[k].team)]
    /\ pc' = "parsed"
    /\ UNCHANGED <<df, agg, h2h_data, matrix, fig, streaks, st, loyalty_data, ly,
                   positions, ps, whatif, all_data, fx, output_file,
                   ld, correlations, awards,
                   chip_stats, predictions, le>>

NextRoundTrip == WriteTeams \/ ReadTeams \/ ParseTeams

SpecRoundTrip == InitRoundTrip /\ [][NextRoundTrip]_vars

(***************************************************************************)
(* Claims about the squad column.                                          *)
(***************************************************************************)
\* C18: for every squad sequence of {player_id, multiplier, points} entries
\* written by the fetch, parsing the stored literal back yields a sequence
\* equal to the original: same length, same order, the same three field
\* values per entry.
C18_SquadRoundTrip ==
    pc = "parsed" =>
        \A k \in DOMAIN all_data :
            LET team == all_data[k].team
                parsed == team_list[k]
            IN /\ parsed.ok
               /\ Len(parsed.value) = Len(team)
               /\ \A j \in DOMAIN team :
                    /\ DOMAIN parsed.value[j] = {"player_id", "multiplier", "points"}
                    /\ parsed.value[j].player_id = team[j].player_id
                    /\ parsed.value[j].multiplier = team[j].multiplier
                    /\ parsed.value[j].points = team[j].points

\* a squad of two entries came back, with an id of three digits and a
\* negative and a two-digit score, in this order
C18_Witness ==
    /\ pc = "parsed"
    /\ Len(all_data[1].team) = MaxSquad
    /\ all_data[1].team[1].points = -2 /\ all_data[1].team[1].player_id = 123
    /\ all_data[1].team[MaxSquad].points = 15
    /\ team_list[1].ok
    /\ team_list[1].value[1].points = -2 /\ team_list[1].value[1].player_id = 123
    /\ team_list[1].value[MaxSquad].points = 15
    /\ output_file[1].team[1] = "\""

(***************************************************************************)
(* analyze_team_correlation on tables in which chips are played.           *)
(***************************************************************************)
\* a squad of one player and a chip, or none, in every record
ChipSimilarityValues ==
    {[chip |-> c, team |-> <<[player_id |-> 1, multiplier |-> 1, points |-> 2]>>] :
        c \in {NoChip, "3xc", "bboost"}}

InitChipSimilarity ==
    LoadedTable(AllTeams, FirstWeeks, ChipSimilarityValues) /\ pc = "loaded" /\ Idle

SpecChipSimilarity == InitChipSimilarity /\ [][NextCorrelation]_vars

\* the records of the two teams alone, in table order
OnlyTeams(d, team1, team2) ==
    LET keep == SelectIdx(d, RowsOf(d, team1) \cup RowsOf(d, team2), 1)
    IN [k \in DOMAIN keep |-> d[keep[k]]]

\* C21: for every pair of teams chip_similarity is the number of shared
\* gameweeks in which both teams used the same non-null chip, divided by the
\* number of gameweeks the two teams share, and it is the value the pair gets
\* from the table of its own records alone, whatever a third team recorded.
C21_ChipSimilarityOverShared ==
    (pc = "correlated" /\ correlations.raised = "") =>
        \A k \in DOMAIN correlations.rows :
            LET row == correlations.rows[k]
                shared == SharedGws(row.team_1, row.team_2)
                same == {g \in shared :
                            /\ FirstRow(df, row.team_1, g).chip = FirstRow(df, row.team_2, g).chip
                            /\ FirstRow(df, row.team_1, g).chip # NoChip}
                alone == analyze_team_correlation(OnlyTeams(df, row.team_1, row.team_2))
            IN /\ FloatIs(row.chip_similarity, Cardinality(same), Cardinality(shared))
               /\ alone.raised = ""
               /\ row.chip_similarity = alone.rows[1].chip_similarity

(***************************************************************************)
(* analyze_chip_timing (fpl_data.py).                                      *)
(***************************************************************************)
\* for chip in ['3xc', 'bboost', 'freehit', 'wildcard1', 'wildcard2']
ChipTimingChips == <<"3xc", "bboost", "freehit", "wildcard1", "wildcard2">>

\* Series.mean() of column col over the rows of I: NaN for no rows
MeanCol(d, I, col) == IF I = {} THEN NaN ELSE Float(SumCol(d, I, col), Cardinality(I))

\* the entry appended for a chip that has rows
ChipTimingRow(d, chip) ==
    LET chip_df == {i \in DOMAIN d : d[i].chip = chip}
    IN [chip |-> chip,
        avg_points_early |-> MeanCol(d, {i \in chip_df : d[i].gw <= 19}, "points"),
        avg_points_late |-> MeanCol(d, {i \in chip_df : d[i].gw > 19}, "points"),
        best_gw |-> d[IdxMax(d, chip_df, "points")].gw]

\* the loop over the chips from the k-th on: a chip without rows is skipped
RECURSIVE ChipTimingLoop(_, _)
ChipTimingLoop(d, k) ==
    IF k > Len(ChipTimingChips) THEN <<>>
    ELSE IF {i \in DOMAIN d : d[i].chip = ChipTimingChips[k]} = {}
    THEN ChipTimingLoop(d, k + 1)
    ELSE <<ChipTimingRow(d, ChipTimingChips[k])>> \o ChipTimingLoop(d, k + 1)

analyze_chip_timing(d) == ChipTimingLoop(d, 1)

ChipTimingValues ==
    {[chip |-> c, points |-> p] : c \in {NoChip, "3xc", "manager"}, p \in {1, 2}}

InitChipTiming ==
    LoadedTable(AllTeams, TwoHalves, ChipTimingValues) /\ pc = "loaded" /\ Idle

AnalyzeChipTiming ==
    /\ pc = "loaded"
    /\ chip_stats' = analyze_chip_timing(df)
    /\ pc' = "chip_timed"
    /\ UNCHANGED <<df, agg, h2h_data, matrix, fig, streaks, st, loyalty_data, ly,
                   positions, ps, whatif, all_data, fx, output_file,
                   ld, correlations, awards, team_list, predictions, le>>

NextChipTiming == AnalyzeChipTiming

SpecChipTiming == InitChipTiming /\ [][NextChipTiming]_vars

(***************************************************************************)
(* Claims about analyze_chip_timing.                                       *)
(***************************************************************************)
\* the chip types of the data model
DataModelChips == {"3xc", "bboost", "freehit", "manager", "wildcard1", "wildcard2"}
UsesOf(chip) == {i \in DOMAIN df : df[i].chip = chip}

\* C22: the result has exactly one row for each chip type of the data model
\* that is used in at least one record and no row for a chip used in none;
\* the row's early mean is over the chip's uses with gw <= 19, its late mean
\* over the uses with gw > 19, and best_gw is the gameweek of a
\* highest-scoring record that used the chip.
C22_ChipTimingRowPerUsedChip ==
    pc = "chip_timed" =>
        /\ \A chip \in DataModelChips :
               Cardinality({k \in DOMAIN chip_stats : chip_stats[k].chip = chip})
                   = IF UsesOf(chip) # {} THEN 1 ELSE 0
        /\ \A k \in DOMAIN chip_stats :
               LET row == chip_stats[k]
                   uses == UsesOf(row.chip)
                   early == {i \in uses : df[i].gw <= 19}
                   late == {i \in uses : df[i].gw > 19}
               IN /\ row.chip \in DataModelChips
                  /\ row.avg_points_early = MeanCol(df, early, "points")
                  /\ row.avg_points_late = MeanCol(df, late, "points")
                  /\ \E i \in uses : /\ df[i].gw = row.best_gw
                                     /\ \A j \in uses : df[j].points <= df[i].points

(***************************************************************************)
(* analyze_what_if on tables with bench points and bench boosts.           *)
(***************************************************************************)
WhatIfBenchValues == {[bench |-> b, chip |-> c] : b \in {0, 3}, c \in {NoChip, "bboost"}}

InitWhatIfBench ==
    LoadedTable(AllTeams, FirstWeeks, WhatIfBenchValues) /\ pc = "loaded" /\ Idle

SpecWhatIfBench == InitWhatIfBench /\ [][NextWhatIf]_vars

\* C23: for every team, points_with_best_bench is the team's actual total
\* points with its own bench total replaced by the sum of the 11 highest
\* bench values found leaguewide, over all teams' records, bench-boost
\* records being excluded from that selection.
C23_BestBenchLeaguewide ==
    pc = "whatif" =>
        \A k \in DOMAIN whatif :
            LET team_df == RowsOf(df, whatif[k].name)
                league == {i \in DOMAIN df : df[i].chip # "bboost"}
            IN whatif[k].points_with_best_bench
                  = SumCol(df, team_df, "points") - SumCol(df, team_df, "bench")
                    + TopSum(df, league, "bench", BestBenchCount)

(***************************************************************************)
(* Claims about the two rounds of calculate_aggregates.                    *)
(***************************************************************************)
\* the sum of the team's points over its records with a gameweek in Half
PointsIn(name, Half) == SumCol(df, {i \in RowsOf(df, name) : df[i].gw \in Half}, "points")

\* C24: for every team runda_1 is the sum of the team's points over its
\* records with gw <= 19, runda_2 the sum over its records with gw > 19, a
\* sum over no records being 0, and roznica_rund is runda_2 - runda_1: all
\* three are defined numbers for every team, also when the table holds only
\* first-half gameweeks.
C24_RoundsAreDefinedSums ==
    Aggregated =>
        \A name \in AggNames :
            LET row == AggOf(name)
            IN /\ FloatIs(row.runda_1, PointsIn(name, 1..19), 1)
               /\ FloatIs(row.runda_2, PointsIn(name, 20..38), 1)
               /\ FloatIs(row.roznica_rund, PointsIn(name, 20..38) - PointsIn(name, 1..19), 1)

(***************************************************************************)
(* predict_performance (fpl_data.py).  The weights 0.5, 0.3 and 0.2 are    *)
(* the exact fractions 5/10, 3/10 and 2/10.                                *)
(***************************************************************************)
\* df['gw'].max()
MaxGw(d) == CHOOSE g \in GwsOf(d) : \A h \in GwsOf(d) : h <= g

\* week % 38 if week > 38 else week
SimilarGw(week) == IF week > 38 THEN week % 38 ELSE week

\* the rows whose points enter `historical`: for each projected week the
\* team's first row of the same-numbered gameweek, when it has one
RECURSIVE Historical(_, _, _, _)
Historical(d, team_df, week, last) ==
    IF week > last THEN <<>>
    ELSE LET hist == {i \in team_df : d[i].gw = SimilarGw(week)}
         IN IF hist # {}
            THEN <<d[FirstOf(hist)].points>> \o Historical(d, team_df, week + 1, last)
            ELSE Historical(d, team_df, week + 1, last)

\* (0.5 * recent_form) + (0.3 * season_avg) + (0.2 * hist_avg)
Weighted(r, s, h) ==
    IF r.nan \/ s.nan \/ h.nan THEN NaN
    ELSE Float(5 * r.num * s.den * h.den + 3 * s.num * r.den * h.den + 2 * h.num * r.den * s.den,
               10 * r.den * s.den * h.den)

\* recent_form > season_avg: a comparison with NaN is False
FloatGreater(x, y) == ~x.nan /\ ~y.nan /\ x.num * y.den > y.num * x.den

\* min(max((1 - std / mean) * 100, 0), 100) with the sample standard
\* deviation: the variance and the mean it is computed from, and whether it
\* is clipped (between the clips it is 100 * (1 - sqrt(variance) / mean))
Confidence(d, I) ==
    LET n == Cardinality(I)
        s == SumCol(d, I, "points")
        q == SumSet(I, [i \in I |-> d[i].points * d[i].points])
        v == n * q - s * s
    IN IF n < 2 \/ (s = 0 /\ v = 0) THEN [nan |-> TRUE, level |-> "nan"]
       ELSE [nan |-> FALSE,
             variance |-> Float(v, n * (n - 1)),
             mean |-> Float(s, n),
             level |-> IF s < 0 \/ v = 0 THEN "100"
                       ELSE IF s = 0 \/ n * v >= (n - 1) * s * s THEN "0"
                       ELSE "between"]

PredictionRow(d, name, weeks_ahead) ==
    LET current_gw == MaxGw(d)
        team_df == RowsOf(d, name)
        recent_form == MeanCol(d, {i \in team_df : d[i].gw > current_gw - 5}, "points")
        season_avg == MeanCol(d, team_df, "points")
        historical == Historical(d, team_df, current_gw + 1, current_gw + weeks_ahead)
        hist_avg == IF historical # <<>> THEN Float(SumSeq(historical), Len(historical))
                    ELSE season_avg
    IN [name |-> name,
        predicted_points |-> Weighted(recent_form, season_avg, hist_avg),
        form_trend |-> IF FloatGreater(recent_form, season_avg) THEN "positive" ELSE "negative",
        confidence |-> Confidence(d, team_df)]

predict_performance(d, weeks_ahead) ==
    LET names == GroupNames(d)
    IN [k \in DOMAIN names |-> PredictionRow(d, names[k], weeks_ahead)]

\* gameweeks at both ends of the season, so that a projected week wraps
SeasonEnds == {1, 2, 34, 38}
PredictionValues == {[points |-> p] : p \in {1, 3}}
WeeksAhead == {1, 5}

InitPredict ==
    LoadedTable(AllTeams, SeasonEnds, PredictionValues) /\ pc = "loaded" /\ Idle

PredictPerformance ==
    /\ pc = "loaded"
    /\ \E weeks_ahead \in WeeksAhead :
          predictions' = [weeks_ahead |-> weeks_ahead,
                          rows |-> predict_performance(df, weeks_ahead)]
    /\ pc' = "predicted"
    /\ UNCHANGED <<df, agg, h2h_data, matrix, fig, streaks, st, loyalty_data, ly,
                   positions, ps, whatif, all_data, fx, output_file,
                   ld, correlations, awards, team_list, chip_stats, le>>

NextPredict == PredictPerformance

SpecPredict == InitPredict /\ [][NextPredict]_vars

(***************************************************************************)
(* Claims about predict_performance.                                       *)
(***************************************************************************)
\* the team's records in its last n played gameweeks
LastPlayed(name, n) ==
    {i \in RowsOf(df, name) :
        Cardinality({j \in RowsOf(df, name) : df[j].gw > df[i].gw}) < n}

\* the team's records in the earlier gameweeks that have the numbers of the
\* next weeks_ahead gameweeks
SameNumbered(name, weeks_ahead) ==
    {i \in RowsOf(df, name) :
        \E week \in (MaxGw(df) + 1)..(MaxGw(df) + weeks_ahead) : df[i].gw = SimilarGw(week)}

\* C25: for every team predicted_points is 0.5 x the mean of the team's
\* points in its last 5 played gameweeks + 0.3 x the mean of all its points
\* + 0.2 x the mean of its points in the earlier gameweeks that have the
\* same numbers as the next weeks_ahead gameweeks, a projected week past 38
\* being mapped to its number modulo 38 (stated for the teams that have
\* such an earlier gameweek).
C25_PredictedPointsWeights ==
    pc = "predicted" =>
        \A k \in DOMAIN predictions.rows :
            LET row == predictions.rows[k]
                same == SameNumbered(row.name, predictions.weeks_ahead)
            IN same # {} =>
                /\ ~row.predicted_points.nan
                /\ row.predicted_points.num
                     * 10 * Cardinality(LastPlayed(row.name, 5))
                          * Cardinality(RowsOf(df, row.name)) * Cardinality(same)
                   = row.predicted_points.den
                     * ( 5 * SumCol(df, LastPlayed(row.name, 5), "points")
                            * Cardinality(RowsOf(df, row.name)) * Cardinality(same)
                       + 3 * SumCol(df, RowsOf(df, row.name), "points")
                            * Cardinality(LastPlayed(row.name, 5)) * Cardinality(same)
                       + 2 * SumCol(df, same, "points")
                            * Cardinality(LastPlayed(row.name, 5))
                            * Cardinality(RowsOf(df, row.name)) )

(***************************************************************************)
(* load_data followed by calculate_aggregates, as the dashboard and the    *)
(* report run them.                                                        *)
(***************************************************************************)
NextLoadAggregate == LoadData \/ CalculateAggregates

SpecLoadAggregate == InitLoad /\ [][NextLoadAggregate]_vars

\* C26: every table that load_data accepts (non-empty, all ten required
\* columns present) can be aggregated: calculate_aggregates never fails on
\* it because of a column it needs that the loader did not require.
C26_AcceptedTableAggregates ==
    (pc = "aggregated" /\ ld # Unset /\ ld.result.returned) => agg.error # "KeyError"

(***************************************************************************)
(* The positions of a gameweek as a set.                                   *)
(***************************************************************************)
\* the positions given in gameweek g to the teams that have a record in it
PositionsOfGw(g) == {PositionIn(name, g) : name \in TeamsOfGw(g)}
\* the teams at position 1 in gameweek g
TopOfGw(g) == {name \in TeamsOfGw(g) : PositionIn(name, g) = 1}

\* C27: with at most one record per team and gameweek, the positions given
\* in a gameweek to the k teams that have a record that week are exactly the
\* numbers 1..k, each given to one team; so one team holds position 1 in
\* every gameweek, weeks_at_top summed over the teams is the number of
\* gameweeks, and highest_position <= avg_position <= lowest_position for
\* every team.
C27_PositionsArePermutation ==
    pc = "positions_done" =>
        /\ \A g \in GwsOf(df) :
              /\ PositionsOfGw(g) = 1..Cardinality(TeamsOfGw(g))
              /\ \A a, b \in TeamsOfGw(g) : PositionIn(a, g) = PositionIn(b, g) => a = b
              /\ Cardinality(TopOfGw(g)) = 1
        /\ SumSeq([k \in DOMAIN positions |-> positions[k].weeks_at_top])
              = Cardinality(GwsOf(df))
        /\ \A k \in DOMAIN positions :
              LET row == positions[k]
              IN /\ ~row.avg_position.nan /\ row.avg_position.den > 0
                 /\ row.highest_position * row.avg_position.den <= row.avg_position.num
                 /\ row.avg_position.num <= row.lowest_position * row.avg_position.den

\* a gameweek with three teams and one with fewer, and a team whose
\* position changed, so that its average lies strictly between its extremes
C27_Witness ==
    /\ pc = "positions_done"
    /\ \E g \in GwsOf(df) : Cardinality(TeamsOfGw(g)) = 3
    /\ \E g \in GwsOf(df) : Cardinality(TeamsOfGw(g)) = 1
    /\ \E k \in DOMAIN positions :
          /\ positions[k].highest_position < positions[k].lowest_position
          /\ positions[k].weeks_at_top = 1

(***************************************************************************)
(* Bounds on the streaks of a team.                                        *)
(***************************************************************************)
\* C28: after the scan of a team with N >= 1 gameweeks, current_streak is
\* never 0; a positive current_streak is at most longest_good_streak and
\* the magnitude of a negative one at most longest_bad_streak; the two
\* longest streaks together are at most N, and one of them is at least 1.
C28_StreakBounds ==
    StreakScanning =>
        \A r \in DOMAIN streaks :
            LET row == streaks[r]
                N == Cardinality({df[i].gw : i \in RowsOf(df, row.name)})
            IN N >= 1 =>
                /\ row.current_streak # 0
                /\ IF row.current_streak > 0
                   THEN row.current_streak <= row.longest_good_streak
                   ELSE -row.current_streak <= row.longest_bad_streak
                /\ row.longest_good_streak + row.longest_bad_streak <= N
                /\ row.longest_good_streak >= 1 \/ row.longest_bad_streak >= 1

\* the scan is over: one team ended a good streak after a bad one, its two
\* longest streaks filling its three gameweeks, and another ended below the
\* mean
C28_Witness ==
    /\ pc = "streaks_done"
    /\ \E r \in DOMAIN streaks :
          /\ Cardinality(RowsOf(df, streaks[r].name)) = 3
          /\ streaks[r].current_streak = 1
          /\ streaks[r].longest_bad_streak = 2
          /\ streaks[r].longest_good_streak = 1
    /\ \E r \in DOMAIN streaks : streaks[r].current_streak = -1

\* the number of chips the team used over the season
ChipCount(name) ==
    Cardinality({i \in RowsOf(LoadedDf, name) : LoadedDf[i].chip # NoChip})

MaxPages == 3

\* the results a page can hold: the entries are numbered by page
PageResults(p) == {<<>>, <<10 * p + 1>>, <<10 * p + 1, 10 * p + 2>>}

\* the pages the feed would serve for page_standings = 1, 2, ...
StandingsFeeds ==
    {f \in [1..MaxPages -> [results : UNION {PageResults(p) : p \in 1..MaxPages},
                            has_next : BOOLEAN]] :
        \A p \in 1..MaxPages : f[p].results \in PageResults(p)}

\* a slip: the loop is left after the first page
HasNextIgnored(data) == FALSE

\* data["standings"]["has_next"]
HasNext(data) == data.has_next

\* the call: entries = [], page = 1
InitLeague ==
    /\ pc = "standings"
    /\ \E f \in StandingsFeeds :
          le = [feed |-> f, entries |-> <<>>, page |-> 1, requests |-> <<>>, result |-> Unset]
    /\ df = Unset /\ agg = Unset /\ h2h_data = Unset /\ matrix = Unset /\ fig = Unset
    /\ streaks = Unset /\ st = Unset /\ loyalty_data = Unset /\ ly = Unset
    /\ positions = Unset /\ ps = Unset /\ whatif = Unset
    /\ all_data = Unset /\ fx = Unset /\ output_file = Unset
    /\ ld = Unset /\ correlations = Unset /\ awards = Unset /\ team_list = Unset
    /\ chip_stats = Unset /\ predictions = Unset

\* one turn of while True: the page is requested and its results appended;
\* without has_next the loop is left and entries returned, else page += 1
RequestStandings ==
    /\ pc = "standings"
    /\ le.page <= MaxPages
    /\ LET data == le.feed[le.page]
           entries == le.entries \o data.results
       IN IF ~HasNext(data)
          THEN /\ le' = [le EXCEPT !.requests = Append(@, le.page),
                                   !.entries = entries, !.result = entries]
               /\ pc' = "listed"
          ELSE /\ le' = [le EXCEPT !.requests = Append(@, le.page),
                                   !.entries = entries, !.page = le.page + 1]
               /\ pc' = pc
    /\ UNCHANGED <<df, agg, h2h_data, matrix, fig, streaks, st, loyalty_data, ly,
                   positions, ps, whatif, all_data, fx, output_file,
                   ld, correlations, awards, team_list, chip_stats, predictions>>

NextLeague == RequestStandings

SpecLeague == InitLeague /\ [][NextLeague]_vars

\* the loop takes its next turn whenever it has one
SpecLeagueFair == SpecLeague /\ WF_vars(NextLeague)

(***************************************************************************)
(* Claims about get_league_entries.                                        *)
(***************************************************************************)
RECURSIVE ResultsUpTo(_, _)
\* the results of the pages 1..n of the feed, in page order
ResultsUpTo(f, n) == IF n = 0 THEN <<>> ELSE ResultsUpTo(f, n - 1) \o f[n].results

\* the feed serves, within the pages followed, a page without has_next
ServesLastPage == \E p \in 1..MaxPages : ~le.feed[p].has_next

\* the requests so far are for the pages 1, 2, ..., one each, the entries are
\* the results of those pages in page order, every page before the last
\* requested one had has_next, and the call has returned exactly when the
\* last requested page has none
StandingsInOrder ==
    /\ \A k \in DOMAIN le.requests : le.requests[k] = k
    /\ le.entries = ResultsUpTo(le.feed, Len(le.requests))
    /\ \A k \in DOMAIN le.requests : k < Len(le.requests) => le.feed[k].has_next
    /\ pc = "listed" <=> (le.requests # <<>> /\ ~le.feed[Len(le.requests)].has_next)
    /\ pc = "listed" => le.result = le.entries

\* C30: get_league_entries requests the standings pages 1, 2, 3, ... in
\* order, one request per page, and returns the concatenation of their
\* results in page order; it returns right after the first page whose
\* has_next is false, requests no page after it, and terminates if and only
\* if the feed eventually serves such a page.
C30_PagesUntilLast ==
    /\ []StandingsInOrder
    /\ [][pc = "listed" => le' = le]_vars
    /\ ServesLastPage => <>(pc = "listed")
    /\ ~ServesLastPage => [](pc # "listed")

\* the call returned after two pages, both with results, while the feed had
\* a third page to serve
C30_Witness ==
    /\ pc = "listed"
    /\ le.requests = <<1, 2>>
    /\ le.result = <<11, 12, 21>>
    /\ le.feed[3].results # <<>>

====
